---------------------------- MODULE Spec2Model ----------------------------
(***************************************************************************)
(* A model of PortkeyBenchmark (src/benchmark.js): the preflight test,     *)
(* the pool of workers started by runBenchmark, the shared run state they  *)
(* coordinate through, and makeRequest's classification of a Completer     *)
(* call into a Request Record.                                             *)
(*                                                                         *)
(* JavaScript runs one callback at a time: a piece of code between two     *)
(* awaits is one atomic action of the model.  Date.now() is the variable   *)
(* now (milliseconds), which Tick advances by ClockStep, so the clock may  *)
(* advance between any two callbacks.                                      *)
(***************************************************************************)
EXTENDS Integers, Sequences, FiniteSets, TLC

\* ------------------------------------------------------------- bounds
MaxConcurrency == 2
MaxRequests == 2
MaxDuration == 1
MaxPreflightTicks == 1
MaxRoundTicks == 2
MaxHeaders == 2
MaxPromptLength == 104
MaxRecords == 3

\* The number of characters the preflight keeps of a string prompt (line 202).
PreflightPromptLimit == 100

\* The defaults of main (lines 761-763).
DefaultConcurrency == 5
DefaultMaxRequests == 100
DefaultTestDuration == 60

\* ---------------------------------------------------- program constants
MsPerSecond == 1000
ShortDelay == 100
LongDelay == 500
HighConcurrency == 50

\* The clock's resolution in the model: one second per Tick.
ClockStep == MsPerSecond

\* JavaScript's null for a numeric field (a processing time is > 0).
null == 0 - 1

Providers == {"openai", "portkey"}
Workers == 0 .. (MaxConcurrency - 1)

VARIABLES
  args,             \* the arguments of a function called on its own
  ret,              \* what that call returned, NotCalled before it returns
  config,           \* this.config: mode, prompt, concurrency, maxRequests, testDuration
  now,              \* Date.now(), in ms
  bpc,              \* where runBenchmark is
  probe,            \* the preflight makeRequest in flight: provider and start
  testResults,      \* runPreflightTest's testResults
  probeCalls,       \* history: preflight Completer calls issued, per provider
  thrown,           \* the error runBenchmark rejected with, or "none"
  openaiEnabled,    \* this.openaiEnabled
  portkeyEnabled,   \* this.portkeyEnabled
  startTime,        \* runBenchmark's startTime
  sharedState,      \* this.sharedState, Undefined until it is created
  nextWorker,       \* i of the loop that starts the workers
  wpc,              \* where each worker is
  currentRequestNumber, \* each worker's currentRequestNumber
  requestStart,     \* startTime of the makeRequest calls of a worker's round
  pending,          \* the providers whose Completer call is in flight, per worker
  roundResults,     \* the settled makeRequest promises of a worker's round
  callStart,        \* startTime of each makeRequest call of the round followed in detail
  results,          \* this.results
  exitReason,       \* which break ended the worker's loop
  claimed,          \* history: the sequence numbers captured, in order
  completerCalls,   \* history: load-phase Completer calls issued, per provider
  completerErrors   \* history: load-phase Completer calls that raised, per provider

\* The call of a function of the program that the specifications of single
\* functions follow: its arguments, and what it returned.
callVars == << args, ret >>

vars == << args, ret, config, now, bpc, probe, testResults, probeCalls, thrown, openaiEnabled,
           portkeyEnabled, startTime, sharedState, nextWorker, wpc,
           currentRequestNumber, requestStart, pending, roundResults, callStart,
           results, exitReason, claimed, completerCalls, completerErrors >>

\* this.sharedState before line 374 assigns it.
Undefined == [undefined |-> TRUE]

\* testResults.openai / testResults.portkey before a probe has stored a result.
NoResult == [provider |-> "none"]

NoProbe == [provider |-> "none", start |-> 0]

\* ------------------------------------------------------ provider selection
\* A config without a mode field.
Omitted == "<omitted>"

\* The mode values that are false in a condition: the omitted mode and the
\* empty string (null, 0 and false behave as these do).
Falsy == {Omitted, ""}

\* this.config.mode || 'comparison' (lines 38, 307, 346, 613).
ModeOrDefault(mode) == IF mode \in Falsy THEN "comparison" ELSE mode

\* The default branch of determineProvidersFromMode (lines 49-50).
InvalidMode == ModeOrDefault(config.mode) \notin {"comparison", "loadtest"}

\* Mutant: the direct provider is tested in every mode.
shouldTestOpenAIAlways == ModeOrDefault(config.mode) \in {"comparison", "loadtest"}

\* determineProvidersFromMode: the providers the mode activates.
shouldTestOpenAI == ModeOrDefault(config.mode) = "comparison"

shouldTestPortkey == ModeOrDefault(config.mode) \in {"comparison", "loadtest"}

ActiveProviders ==
  (IF shouldTestOpenAI THEN {"openai"} ELSE {}) \cup
  (IF shouldTestPortkey THEN {"portkey"} ELSE {})

\* The providers the load phase sends to (lines 461-467).
EnabledProviders ==
  (IF openaiEnabled THEN {"openai"} ELSE {}) \cup
  (IF portkeyEnabled THEN {"portkey"} ELSE {})

\* ------------------------------------------------------------ makeRequest
\* An error message is modelled by the set of the substrings, among those
\* makeRequest looks for, that it contains.
Includes(message, s) == s \in message

\* The substrings the catch block looks for in an error message.
ErrorMarks == {"rate limit", "429", "timeout", "ECONNRESET", "ECONNREFUSED"}

\* ---------------------------------------------- extractOpenAIProcessingTime
\* processingTimeHeaders (lines 145-156), in order of preference.
ProcessingTimeHeaders ==
  << "openai-processing-ms", "x-openai-processing-ms", "openai-processing-time-ms",
     "x-processing-time-ms", "processing-time-ms", "x-request-time-ms",
     "x-processing-time", "x-request-time", "request-time", "processing-time" >>

\* The raw response of a Completer call: its headers object, when it has
\* one, is a Headers object whose entries are (key, value) pairs with
\* lower-case keys; a value is the header's text.
NoHeaders == [hasHeaders |-> FALSE, entries |-> << >>]

Headers(entries) == [hasHeaders |-> TRUE, entries |-> entries]

Header(key, value) == [key |-> key, value |-> value]

\* parseFloat on the header texts of the model: the number a text starts
\* with, NaN when it starts with none.
NaN == [isNaN |-> TRUE, ms |-> 0]

Number(n) == [isNaN |-> FALSE, ms |-> n]

ParseFloat(text) ==
  CASE text = "800" -> Number(800)
    [] text = "350" -> Number(350)
    [] text = "12ms" -> Number(12)
    [] text = "0" -> Number(0)
    [] text = "-5" -> Number(0 - 5)
    [] OTHER -> NaN

\* Mutant: a zero or negative time is accepted.
ValidTimeAnyNumber(timeMs) == ~timeMs.isNaN

\* !isNaN(timeMs) && timeMs > 0 (lines 164, 177).
ValidTime(timeMs) == ~timeMs.isNaN /\ timeMs.ms > 0

\* headers.get(name) !== null (lines 160-161).
HasHeader(entries, name) == \E i \in 1 .. Len(entries) : entries[i].key = name

HeaderValue(entries, name) ==
  entries[CHOOSE i \in 1 .. Len(entries) :
            /\ entries[i].key = name
            /\ \A j \in 1 .. (i - 1) : entries[j].key # name].value

\* Which of 'processing', 'ms' and 'time' a lower-case key includes.
KeyParts(key) ==
  CASE key \in {"openai-processing-ms", "x-openai-processing-ms"} -> {"processing", "ms"}
    [] key \in {"openai-processing-time-ms", "x-processing-time-ms",
                "processing-time-ms"} -> {"processing", "ms", "time"}
    [] key \in {"x-processing-time", "processing-time",
                "x-upstream-processing-time"} -> {"processing", "time"}
    [] key = "x-request-time-ms" -> {"ms", "time"}
    [] key \in {"x-request-time", "request-time"} -> {"time"}
    [] OTHER -> {}

\* The test of line 174.
LooksLikeProcessingTime(key) ==
  "processing" \in KeyParts(key) /\ ({"ms", "time"} \cap KeyParts(key) # {})

\* The loop of lines 159-168, from the i-th name on: the first listed header
\* with a valid time, or null.
RECURSIVE FromListedHeaders(_, _)
FromListedHeaders(entries, i) ==
  IF i > Len(ProcessingTimeHeaders) THEN null
  ELSE LET name == ProcessingTimeHeaders[i]
       IN IF HasHeader(entries, name) /\ ValidTime(ParseFloat(HeaderValue(entries, name)))
          THEN ParseFloat(HeaderValue(entries, name)).ms
          ELSE FromListedHeaders(entries, i + 1)

\* The loop of lines 171-182, from the i-th entry on.
RECURSIVE FromAnyHeader(_, _)
FromAnyHeader(entries, i) ==
  IF i > Len(entries) THEN null
  ELSE IF LooksLikeProcessingTime(entries[i].key) /\ ValidTime(ParseFloat(entries[i].value))
       THEN ParseFloat(entries[i].value).ms
       ELSE FromAnyHeader(entries, i + 1)

\* Mutant: the headers that are not listed are searched first.
ExtractAnyHeaderFirst(response) ==
  IF ~response.hasHeaders THEN null
  ELSE IF FromAnyHeader(response.entries, 1) # null
       THEN FromAnyHeader(response.entries, 1)
       ELSE FromListedHeaders(response.entries, 1)

\* extractOpenAIProcessingTime (lines 132-195).
ExtractOpenAIProcessingTime(response) ==
  IF ~response.hasHeaders THEN null
  ELSE IF FromListedHeaders(response.entries, 1) # null
       THEN FromListedHeaders(response.entries, 1)
       ELSE FromAnyHeader(response.entries, 1)

\* ------------------------------------------------- the Completer's outcomes
\* responseData.usage, when the response has one.
NoUsage == [hasUsage |-> FALSE, total_tokens |-> 0, prompt_tokens |-> 0,
            completion_tokens |-> 0]

Usage(prompt, completion) ==
  [hasUsage |-> TRUE, total_tokens |-> prompt + completion,
   prompt_tokens |-> prompt, completion_tokens |-> completion]

\* What a Completer call can do: resolve with a response, or raise an error
\* with a message.
Resolves(response, usage) ==
  [ok |-> TRUE, response |-> response, usage |-> usage, message |-> {}]

Raises(m) == [ok |-> FALSE, response |-> NoHeaders, usage |-> NoUsage, message |-> m]

\* A response with the processing time in the first listed header, and one
\* whose headers hold no processing time.
Timed == Resolves(Headers(<< Header("openai-processing-ms", "800") >>), Usage(10, 20))

Untold == Resolves(Headers(<< Header("content-type", "application/json") >>), Usage(10, 20))

\* The outcomes the preflight probes are tried with.
ProbeOutcomes == {Untold, Timed, Raises({"ECONNREFUSED"})}

\* The outcomes the load phase's calls are tried with.
LoadOutcomes == {Timed, Raises({"429"})}

\* Mutant: the timeout test comes first.
ErrorTypeTimeoutFirst(message) ==
  IF Includes(message, "timeout") \/ Includes(message, "ECONNRESET") THEN "timeout"
  ELSE IF Includes(message, "rate limit") \/ Includes(message, "429") THEN "rate_limit"
  ELSE IF Includes(message, "ECONNREFUSED") THEN "connection_refused"
  ELSE "unknown"

\* The error type of the catch block (lines 107-114).
ErrorType(message) ==
  IF Includes(message, "rate limit") \/ Includes(message, "429") THEN "rate_limit"
  ELSE IF Includes(message, "timeout") \/ Includes(message, "ECONNRESET") THEN "timeout"
  ELSE IF Includes(message, "ECONNREFUSED") THEN "connection_refused"
  ELSE "unknown"

Fulfilled(record) == [status |-> "fulfilled", value |-> record]

Rejected(provider) == [status |-> "rejected", value |-> [provider |-> provider]]

\* usage?.field || 0 (lines 96-98).
Tokens(usage, field) == IF usage.hasUsage THEN usage[field] ELSE 0

\* The truth value of a processing time in the conditional of line 93.
Truthy(t) == t # null /\ t # 0

\* The record of the try block (lines 79-101).
MakeRequestTry(provider, start, end, outcome) ==
  LET openaiProcessingTime == ExtractOpenAIProcessingTime(outcome.response)
  IN Fulfilled([provider |-> provider,
                totalTime |-> end - start,
                openaiProcessingTime |-> openaiProcessingTime,
                networkLatency |-> IF Truthy(openaiProcessingTime)
                                   THEN (end - start) - openaiProcessingTime
                                   ELSE null,
                success |-> TRUE,
                error |-> {},
                errorType |-> "none",
                tokensUsed |-> Tokens(outcome.usage, "total_tokens"),
                promptTokens |-> Tokens(outcome.usage, "prompt_tokens"),
                completionTokens |-> Tokens(outcome.usage, "completion_tokens")])

\* Mutant: the catch block rethrows instead of returning a record.
MakeRequestCatchRethrows(provider, start, end, outcome) == Rejected(provider)

\* The record of the catch block (lines 102-129).
MakeRequestCatch(provider, start, end, outcome) ==
  Fulfilled([provider |-> provider,
             totalTime |-> end - start,
             openaiProcessingTime |-> null,
             networkLatency |-> null,
             success |-> FALSE,
             error |-> outcome.message,
             errorType |-> ErrorType(outcome.message),
             tokensUsed |-> 0,
             promptTokens |-> 0,
             completionTokens |-> 0])

\* typeof prompt === 'string' || Array.isArray(prompt) (lines 60-63).
ValidPrompt(prompt) == prompt \in {"string", "array"}

\* The Error of line 65; its message holds none of the substrings the catch
\* block looks for.
PromptError == Raises({})

\* What the try block runs into: the throw of line 65 before any Completer
\* call, or else the outcome of the Completer call of line 68.
TryOutcome(prompt, outcome) ==
  IF ValidPrompt(prompt) THEN outcome ELSE PromptError

\* The Completer calls one makeRequest call makes (lines 60-68).
CallsMade(prompt) == IF ValidPrompt(prompt) THEN 1 ELSE 0

\* makeRequest, from the Completer's outcome to the promise it settles.
MakeRequest(provider, start, end, outcome) ==
  IF outcome.ok
  THEN MakeRequestTry(provider, start, end, outcome)
  ELSE MakeRequestCatch(provider, start, end, outcome)


\* --------------------------------------------------------- configuration
\* The shapes of config.prompt that the pool model runs with: a string, and
\* a value that is neither a string nor an array (a number, an object).  An
\* array is sent on as a string's one-message array is (lines 60-63).
PromptShapes == {"string", "other"}

Configs ==
  [mode : {"comparison", "loadtest"},
   prompt : PromptShapes,
   concurrency : 1 .. MaxConcurrency,
   maxRequests : 0 .. MaxRequests,
   testDuration : 0 .. MaxDuration]

\* No function has been called on its own.
NoCall == [called |-> FALSE]

NotCalled == [returned |-> FALSE]

\* The state after the constructor has returned (pc = "constructed") or
\* thrown: nothing sent, nothing recorded.
AfterConstructor(pc, error) ==
  /\ now = 0
  /\ bpc = pc
  /\ probe = NoProbe
  /\ testResults = [openai |-> NoResult, portkey |-> NoResult]
  /\ probeCalls = [p \in Providers |-> 0]
  /\ thrown = error
  /\ openaiEnabled = FALSE
  /\ portkeyEnabled = FALSE
  /\ startTime = 0
  /\ sharedState = Undefined
  /\ nextWorker = 0
  /\ wpc = [w \in Workers |-> "notStarted"]
  /\ currentRequestNumber = [w \in Workers |-> 0]
  /\ requestStart = [w \in Workers |-> 0]
  /\ pending = [w \in Workers |-> {}]
  /\ roundResults = [w \in Workers |-> {}]
  /\ callStart = [p \in Providers |-> 0]
  /\ results = [openai |-> << >>, portkey |-> << >>]
  /\ exitReason = [w \in Workers |-> "none"]
  /\ claimed = << >>
  /\ completerCalls = [p \in Providers |-> 0]
  /\ completerErrors = [p \in Providers |-> 0]

Constructed == AfterConstructor("constructed", "none")

\* The constructor threw at line 50: there is no object to run.
ConstructorThrew == AfterConstructor("threw", "invalidMode")

Init ==
  /\ args = NoCall
  /\ ret = NotCalled
  /\ config \in Configs
  /\ Constructed

poolVars == << sharedState, nextWorker, wpc, currentRequestNumber, requestStart,
               pending, roundResults, callStart, results, exitReason, claimed,
               completerCalls, completerErrors >>

preflightVars == << probe, testResults, probeCalls, thrown >>

\* ---------------------------------------------------------------- clock
\* How long the model lets the clock run in the load phase: to the configured
\* duration, or for one step when none is configured.
Horizon ==
  IF config.testDuration # 0 THEN config.testDuration * MsPerSecond ELSE ClockStep

\* Date.now() advances, until the load phase has lasted Horizon.
Tick ==
  /\ \/ /\ bpc \in {"constructed", "preflight", "preflightPassed"}
        /\ now < MaxPreflightTicks * ClockStep
     \/ /\ bpc \in {"starting", "running"}
        /\ now - startTime < Horizon
  /\ now' = now + ClockStep
  /\ UNCHANGED << config, bpc, openaiEnabled, portkeyEnabled, startTime >>
  /\ UNCHANGED preflightVars
  /\ UNCHANGED poolVars
  /\ UNCHANGED callVars

\* ------------------------------------------------------------- preflight
\* testResults.X && testResults.X.success (lines 281-282).
ProbeSuccess(r) == r.provider # "none" /\ r.success

\* failedProviders (lines 285-296).
FailedProviders(tr) ==
  (IF shouldTestOpenAI /\ ~ProbeSuccess(tr.openai) THEN {"openai"} ELSE {}) \cup
  (IF shouldTestPortkey /\ ~ProbeSuccess(tr.portkey) THEN {"portkey"} ELSE {})

\* openaiHasProcessingTime, portkeyHasProcessingTime (lines 309-310, 326-328).
HasProcessingTime(r) == ProbeSuccess(r) /\ r.openaiProcessingTime # null

\* The providers the warning of lines 306-334 names: in comparison mode the
\* tested providers without a processing time, in loadtest mode the one
\* tested provider when it has none.
MissingProcessingTime(tr) ==
  IF ModeOrDefault(config.mode) = "comparison"
  THEN IF shouldTestOpenAI /\ shouldTestPortkey
       THEN {p \in Providers : ~HasProcessingTime(tr[p])}
       ELSE {}
  ELSE IF shouldTestOpenAI
       THEN (IF HasProcessingTime(tr.openai) THEN {} ELSE {"openai"})
       ELSE (IF HasProcessingTime(tr.portkey) THEN {} ELSE {"portkey"})

\* Mutant: a probe without a processing time is an error, not a warning.
PreflightErrorStrict(tr) ==
  IF Cardinality(FailedProviders(tr)) = Cardinality(ActiveProviders) THEN "allFailed"
  ELSE IF Cardinality(FailedProviders(tr)) > 0 THEN "someFailed"
  ELSE IF MissingProcessingTime(tr) # {} THEN "processingTimeMissing"
  ELSE "none"

\* Mutant: a partial failure is tolerated, the run goes on with the rest.
PreflightErrorAllOnly(tr) ==
  IF Cardinality(FailedProviders(tr)) = Cardinality(ActiveProviders) THEN "allFailed"
  ELSE "none"

\* Mutant: no probe failure is fatal, the run goes on with the providers
\* that passed, if any.
PreflightErrorNever(tr) == "none"

\* Mutant: the two checks of lines 298-304 in the other order.
PreflightErrorSwapped(tr) ==
  IF Cardinality(FailedProviders(tr)) > 0 THEN "someFailed"
  ELSE IF Cardinality(FailedProviders(tr)) = Cardinality(ActiveProviders) THEN "allFailed"
  ELSE "none"

\* The error runPreflightTest throws, if any (lines 298-304).
PreflightError(tr) ==
  IF Cardinality(FailedProviders(tr)) = Cardinality(ActiveProviders) THEN "allFailed"
  ELSE IF Cardinality(FailedProviders(tr)) > 0 THEN "someFailed"
  ELSE "none"

\* What a probe stores in testResults: makeRequest's record, or the record of
\* the probe's own catch block when makeRequest rejects (lines 214-240).
ProbeResult(settled) ==
  IF settled.status = "fulfilled"
  THEN settled.value
  ELSE [provider |-> settled.value.provider, success |-> FALSE]

\* runBenchmark calls runPreflightTest, which sends the first probe.
BeginPreflight ==
  /\ bpc = "constructed"
  /\ bpc' = "preflight"
  /\ LET first == IF shouldTestOpenAI THEN "openai" ELSE "portkey"
     IN /\ probe' = [provider |-> first, start |-> now]
        /\ probeCalls' = [probeCalls EXCEPT ![first] = @ + CallsMade(config.prompt)]
  /\ UNCHANGED << config, now, testResults, thrown, openaiEnabled,
                  portkeyEnabled, startTime >>
  /\ UNCHANGED poolVars
  /\ UNCHANGED callVars

\* makeRequest of the single-mode variant (src/unnamed/part_002, lines
\* 28-93): the same record, without an errorType.
LegacyMakeRequest(provider, start, end, outcome) ==
  IF outcome.ok
  THEN MakeRequestTry(provider, start, end, outcome)
  ELSE Fulfilled([provider |-> provider,
                  totalTime |-> end - start,
                  openaiProcessingTime |-> null,
                  networkLatency |-> null,
                  success |-> FALSE,
                  error |-> outcome.message,
                  tokensUsed |-> 0,
                  promptTokens |-> 0,
                  completionTokens |-> 0])

\* The error runPreflightTest of the single-mode variant throws, if any
\* (src/unnamed/part_002, lines 238-269); both providers are always tested.
LegacyPreflightError(tr) ==
  IF ~ProbeSuccess(tr.openai) /\ ~ProbeSuccess(tr.portkey) THEN "allFailed"
  ELSE IF ~ProbeSuccess(tr.openai) THEN "someFailed"
  ELSE IF ~ProbeSuccess(tr.portkey) THEN "someFailed"
  ELSE IF ~HasProcessingTime(tr.openai) \/ ~HasProcessingTime(tr.portkey)
       THEN "processingTimeMissing"
  ELSE "none"

\* A probe's Completer call ends: its result is stored, then either the next
\* probe is sent or the results are evaluated (lines 211-304; with legacy
\* true, the single-mode variant's lines 173-269).
\* Mutant: the proxy is probed only when the probe of the direct provider
\* succeeded.
PortkeyIsProbedAfterSuccess(legacy, tr) ==
  (legacy \/ shouldTestPortkey) /\ ProbeSuccess(tr.openai)

\* The test of line 246, made after the probe of the direct provider has
\* stored its result in tr, whatever that result is.
PortkeyIsProbed(legacy, tr) == legacy \/ shouldTestPortkey

ProbeReturnsWith(outcome, legacy) ==
  /\ bpc = "preflight"
  /\ probe.provider # "none"
  /\ LET tried == TryOutcome(config.prompt, outcome)
         settled == IF legacy
                    THEN LegacyMakeRequest(probe.provider, probe.start, now, tried)
                    ELSE MakeRequest(probe.provider, probe.start, now, tried)
         tr == [testResults EXCEPT ![probe.provider] = ProbeResult(settled)]
         error == IF legacy THEN LegacyPreflightError(tr) ELSE PreflightError(tr)
     IN /\ testResults' = tr
        /\ IF probe.provider = "openai" /\ PortkeyIsProbed(legacy, tr)
           THEN /\ probe' = [provider |-> "portkey", start |-> now]
                /\ probeCalls' = [probeCalls EXCEPT
                                    !["portkey"] = @ + CallsMade(config.prompt)]
                /\ UNCHANGED << bpc, thrown >>
           ELSE /\ probe' = NoProbe
                /\ thrown' = error
                /\ UNCHANGED probeCalls
                /\ bpc' = IF error = "none" THEN "preflightPassed" ELSE "rejected"
  /\ UNCHANGED << config, now, openaiEnabled, portkeyEnabled, startTime >>
  /\ UNCHANGED poolVars
  /\ UNCHANGED callVars

\* The probe of src/benchmark.js.
ProbeReturns(outcome) == ProbeReturnsWith(outcome, FALSE)

\* ------------------------------------------------------ shared run state
\* The sharedState object of lines 374-379.
NewSharedState ==
  [requestCount |-> 0, shouldStop |-> FALSE,
   maxRequestsReached |-> FALSE, timeLimit |-> FALSE]

\* Mutant: the time-limit check is skipped.
TimeLimitNeverReached(currentTime) == FALSE

\* config.testDuration && elapsedTime >= config.testDuration (lines 424-428),
\* with elapsedTime = (currentTime - startTime) / 1000.
TimeLimitReached(currentTime) ==
  /\ config.testDuration # 0
  /\ currentTime - startTime >= config.testDuration * MsPerSecond

\* Mutant: > for >= in the check before the increment.
MaxRequestsReachedStrict(s) ==
  config.maxRequests # 0 /\ s.requestCount > config.maxRequests

\* Mutant: the check before the increment is left to the re-check after it.
MaxRequestsReachedNever(s) == FALSE

\* Mutant: the check without its "config.maxRequests &&" guard, an absent
\* limit read as the limit 0.
MaxRequestsReachedUnguarded(s) == s.requestCount >= config.maxRequests

\* config.maxRequests && requestCount >= config.maxRequests (line 436).
MaxRequestsReached(s) ==
  config.maxRequests # 0 /\ s.requestCount >= config.maxRequests

\* config.maxRequests && currentRequestNumber > config.maxRequests (line 448).
ExceededMaxRequests(n) ==
  config.maxRequests # 0 /\ n > config.maxRequests

\* Mutant: the loop does not look at the stop signal.
StopSignalledIgnored(s) == FALSE

\* this.sharedState.shouldStop, the first check of the loop (line 419).
StopSignalled(s) == s.shouldStop

\* Lines 430-431.
StopForTimeLimit(s) == [s EXCEPT !.shouldStop = TRUE, !.timeLimit = TRUE]

\* Mutant: the max-requests break forgets to raise the stop signal.
StopForMaxRequestsFlagOnly(s) == [s EXCEPT !.maxRequestsReached = TRUE]

\* Lines 438-439 and 450-451.
StopForMaxRequests(s) == [s EXCEPT !.shouldStop = TRUE, !.maxRequestsReached = TRUE]

\* Mutant: the increment is lost (the worker reads the counter it found).
IncrementLost(s) == s

\* Mutant: -- for ++.
DecrementRequestCount(s) == [s EXCEPT !.requestCount = @ - 1]

\* this.sharedState.requestCount++ (line 444).
IncrementRequestCount(s) == [s EXCEPT !.requestCount = @ + 1]

\* The model lets a run without maxRequests claim this many sequence numbers.
CountCap == MaxRequests

\* The delay between a worker's rounds (line 530).
Delay == IF config.concurrency > HighConcurrency THEN LongDelay ELSE ShortDelay

\* ---------------------------------------------------------------- worker
\* A worker leaves its loop at one of the breaks (lines 419-441).
Break(w, reason, s) ==
  /\ sharedState' = s
  /\ wpc' = [wpc EXCEPT ![w] = "exited"]
  /\ exitReason' = [exitReason EXCEPT ![w] = reason]
  /\ UNCHANGED << currentRequestNumber, requestStart, pending, roundResults,
                  callStart, results, claimed, completerCalls, completerErrors >>

\* The break of the re-check after the increment (lines 444-453): the
\* sequence number is captured, no request is sent.
BreakExceeded(w, n, s) ==
  /\ sharedState' = s
  /\ currentRequestNumber' = [currentRequestNumber EXCEPT ![w] = n]
  /\ claimed' = Append(claimed, n)
  /\ wpc' = [wpc EXCEPT ![w] = "exited"]
  /\ exitReason' = [exitReason EXCEPT ![w] = "exceeded"]
  /\ UNCHANGED << requestStart, pending, roundResults, callStart, results,
                  completerCalls, completerErrors >>

\* Lines 455-469: one makeRequest per enabled provider, each calling the
\* Completer before the worker awaits them together.
Dispatch(w, n, s) ==
  /\ sharedState' = s
  /\ currentRequestNumber' = [currentRequestNumber EXCEPT ![w] = n]
  /\ claimed' = Append(claimed, n)
  /\ requestStart' = [requestStart EXCEPT ![w] = now]
  /\ pending' = [pending EXCEPT ![w] = EnabledProviders]
  /\ completerCalls' = [p \in Providers |->
                          completerCalls[p] + IF p \in EnabledProviders
                                              THEN CallsMade(config.prompt) ELSE 0]
  /\ wpc' = [wpc EXCEPT ![w] = "awaiting"]
  /\ UNCHANGED << roundResults, callStart, results, exitReason, completerErrors >>

\* Lines 444-459: the sequence number is captured, requestStartTime is read,
\* no request is sent yet (the round followed call by call, see RoundSpec).
EnterRound(w, n, s) ==
  /\ sharedState' = s
  /\ currentRequestNumber' = [currentRequestNumber EXCEPT ![w] = n]
  /\ claimed' = Append(claimed, n)
  /\ requestStart' = [requestStart EXCEPT ![w] = now]
  /\ pending' = [pending EXCEPT ![w] = {}]
  /\ wpc' = [wpc EXCEPT ![w] = "calling"]
  /\ UNCHANGED << roundResults, callStart, results, exitReason,
                  completerCalls, completerErrors >>

\* Mutant: the max-requests check of lines 436-441 before the time-limit check
\* of lines 424-433.
LoopIterationMaxRequestsFirst(w, detailed) ==
  IF StopSignalled(sharedState)
  THEN Break(w, "stopSignal", sharedState)
  ELSE IF MaxRequestsReached(sharedState)
  THEN Break(w, "maxRequests", StopForMaxRequests(sharedState))
  ELSE IF TimeLimitReached(now)
  THEN Break(w, "timeLimit", StopForTimeLimit(sharedState))
  ELSE LET s == IncrementRequestCount(sharedState)
           n == s.requestCount
       IN IF ExceededMaxRequests(n)
          THEN BreakExceeded(w, n, StopForMaxRequests(s))
          ELSE /\ config.maxRequests = 0 => n <= CountCap
               /\ IF detailed THEN EnterRound(w, n, s) ELSE Dispatch(w, n, s)

\* One pass of the worker's loop from its top to the first await or break
\* (lines 417-469); nothing else runs in between.  With detailed false the
\* requests of the round are sent at once, with detailed true the pass ends
\* before the first makeRequest call.
LoopIterationWith(w, detailed) ==
  IF StopSignalled(sharedState)
  THEN Break(w, "stopSignal", sharedState)
  ELSE IF TimeLimitReached(now)
  THEN Break(w, "timeLimit", StopForTimeLimit(sharedState))
  ELSE IF MaxRequestsReached(sharedState)
  THEN Break(w, "maxRequests", StopForMaxRequests(sharedState))
  ELSE LET s == IncrementRequestCount(sharedState)
           n == s.requestCount
       IN IF ExceededMaxRequests(n)
          THEN BreakExceeded(w, n, StopForMaxRequests(s))
          ELSE /\ config.maxRequests = 0 => n <= CountCap
               /\ IF detailed THEN EnterRound(w, n, s) ELSE Dispatch(w, n, s)

\* The loop as the pool model takes it: the calls of a round are sent at once.
LoopIteration(w) == LoopIterationWith(w, FALSE)

\* runPreflightTest has returned: runBenchmark records the enabled providers,
\* takes startTime and creates the shared state (lines 364-381).
StartLoadPhase ==
  /\ bpc = "preflightPassed"
  /\ openaiEnabled' = (shouldTestOpenAI /\ ProbeSuccess(testResults.openai))
  /\ portkeyEnabled' = (shouldTestPortkey /\ ProbeSuccess(testResults.portkey))
  /\ testResults' = [openai |-> NoResult, portkey |-> NoResult]
  /\ startTime' = now
  /\ sharedState' = NewSharedState
  /\ nextWorker' = 0
  /\ bpc' = "starting"
  /\ UNCHANGED << config, now, probe, probeCalls, thrown, wpc, currentRequestNumber,
                  requestStart, pending, roundResults, callStart, results,
                  exitReason, claimed, completerCalls, completerErrors >>
  /\ UNCHANGED callVars

\* The loop of lines 384-386 calls runConcurrentRequests(startTime, i), which
\* runs worker i up to its first await; after the last one runBenchmark awaits
\* them all (line 388).
StartWorker ==
  /\ bpc = "starting"
  /\ nextWorker < config.concurrency
  /\ LoopIteration(nextWorker)
  /\ nextWorker' = nextWorker + 1
  /\ bpc' = IF nextWorker + 1 < config.concurrency THEN "starting" ELSE "running"
  /\ UNCHANGED << config, now, openaiEnabled, portkeyEnabled, startTime >>
  /\ UNCHANGED preflightVars
  /\ UNCHANGED callVars

\* The pool never reads a record's timing fields (totalTime,
\* openaiProcessingTime, networkLatency): it keeps the others of each record.
Untimed(settled) ==
  IF settled.status = "fulfilled"
  THEN Fulfilled([provider |-> settled.value.provider,
                  success |-> settled.value.success,
                  errorType |-> settled.value.errorType])
  ELSE settled

\* Mutant: the catch block sends the request once more.
CatchCallsOnceMore(outcome) == IF outcome.ok THEN 0 ELSE 1

\* The Completer calls makeRequest makes after the first one has ended: none,
\* the try block goes on to its return and the catch block to its own
\* (lines 79-129).
CatchCalls(outcome) == 0

\* A makeRequest call of worker w settles: its Completer call has ended
\* (lines 79-129).
CompleteRequest(w, p, outcome) ==
  /\ bpc = "running"
  /\ wpc[w] = "awaiting"
  /\ p \in pending[w]
  /\ pending' = [pending EXCEPT ![w] = @ \ {p}]
  /\ LET tried == TryOutcome(config.prompt, outcome)
     IN /\ roundResults' = [roundResults EXCEPT ![w] =
                 @ \cup {Untimed(MakeRequest(p, requestStart[w], now, tried))}]
        /\ completerErrors' = [completerErrors EXCEPT ![p] =
                 @ + IF tried.ok THEN 0 ELSE CallsMade(config.prompt)]
        /\ completerCalls' = [completerCalls EXCEPT ![p] = @ + CatchCalls(tried)]
  /\ UNCHANGED << config, now, bpc, openaiEnabled, portkeyEnabled, startTime,
                  sharedState, nextWorker, wpc, currentRequestNumber,
                  requestStart, callStart, results, exitReason, claimed >>
  /\ UNCHANGED preflightVars
  /\ UNCHANGED callVars

\* Mutant: only the records of successful requests are pushed.
AppendRoundSuccessesOnly(res, settled) ==
  [p \in {"openai", "portkey"} |->
     LET mine == {x \in settled : x.value.provider = p /\ x.value.success}
     IN IF mine = {} THEN res[p]
        ELSE res[p] \o << (CHOOSE x \in mine : TRUE).value >>]

\* Mutant: the push of lines 496-498 is missing, the proxy's record is dropped.
AppendRoundOpenAIOnly(res, settled) ==
  [p \in {"openai", "portkey"} |->
     LET mine == {x \in settled : x.value.provider = p /\ p = "openai"}
     IN IF mine = {} THEN res[p]
        ELSE res[p] \o << (CHOOSE x \in mine : TRUE).value >>]

\* The records of a round, as lines 489-499 append them.
AppendRound(res, settled) ==
  [p \in {"openai", "portkey"} |->
     LET mine == {x \in settled : x.value.provider = p}
     IN IF mine = {} THEN res[p]
        ELSE res[p] \o << (CHOOSE x \in mine : TRUE).value >>]

\* Promise.all of the round (line 469) has settled: when every makeRequest is
\* fulfilled the worker appends the records and sleeps (lines 471-531); when
\* one is rejected the worker rejects, and with it runBenchmark (line 388).
FinishRound(w) ==
  /\ bpc = "running"
  /\ wpc[w] = "awaiting"
  /\ pending[w] = {}
  /\ roundResults' = [roundResults EXCEPT ![w] = {}]
  /\ requestStart' = [requestStart EXCEPT ![w] = 0]
  /\ IF \E x \in roundResults[w] : x.status = "rejected"
     THEN /\ wpc' = [wpc EXCEPT ![w] = "rejected"]
          /\ bpc' = "rejected"
          /\ thrown' = "workerRejected"
          /\ UNCHANGED results
     ELSE /\ results' = AppendRound(results, roundResults[w])
          /\ wpc' = [wpc EXCEPT ![w] = "sleeping"]
          /\ UNCHANGED << bpc, thrown >>
  /\ UNCHANGED << config, now, probe, testResults, probeCalls, openaiEnabled,
                  portkeyEnabled, startTime, sharedState, nextWorker, currentRequestNumber,
                  pending, callStart, exitReason, claimed, completerCalls,
                  completerErrors >>
  /\ UNCHANGED callVars

\* Mutant: the rounds are taken in lockstep, a worker starts its next round
\* only when no round of another worker is in flight.
TimerReadyBarrier(w) ==
  /\ wpc[w] = "sleeping"
  /\ \A v \in Workers \ {w} : wpc[v] \notin {"awaiting", "hung"}

\* Mutant: the worker does not await its round (line 469) before it runs its
\* next loop iteration.
TimerReadyRoundNotAwaited(w) == wpc[w] \in {"sleeping", "awaiting"}

\* The worker waits on its own timer only (line 531).
TimerReady(w) == wpc[w] = "sleeping"

\* The timer of line 531 fires and the worker runs its next loop iteration.
\* The delay is below the clock's resolution: the timer may fire before the
\* next Tick.
TimerFires(w) ==
  /\ bpc = "running"
  /\ TimerReady(w)
  /\ LoopIteration(w)
  /\ UNCHANGED << config, now, bpc, openaiEnabled, portkeyEnabled, startTime,
                  nextWorker >>
  /\ UNCHANGED preflightVars
  /\ UNCHANGED callVars

\* Mutant: Promise.race for Promise.all, the first worker to exit ends the pool.
SomeWorkerReturned ==
  \E w \in Workers : w < config.concurrency /\ wpc[w] = "exited"

\* Promise.all(promises) of line 388: every worker's promise is fulfilled.
AllWorkersReturned ==
  \A w \in Workers : w < config.concurrency => wpc[w] = "exited"

\* The stop reason of the completion summary (lines 402-408).
StopReason(s) ==
  IF s.maxRequestsReached THEN "maxRequestsReached"
  ELSE IF s.timeLimit THEN "timeLimit"
  ELSE "completedNaturally"

\* Every worker has exited: Promise.all (line 388) resolves and runBenchmark
\* goes on to the completion summary and the report (lines 390-411).
PoolCompletes ==
  /\ bpc = "running"
  /\ AllWorkersReturned
  /\ bpc' = "done"
  /\ UNCHANGED << config, now, openaiEnabled, portkeyEnabled, startTime >>
  /\ UNCHANGED preflightVars
  /\ UNCHANGED poolVars
  /\ UNCHANGED callVars

Next ==
  \/ Tick
  \/ BeginPreflight
  \/ \E o \in ProbeOutcomes : ProbeReturns(o)
  \/ StartLoadPhase
  \/ StartWorker
  \/ \E w \in Workers, p \in Providers, o \in LoadOutcomes : CompleteRequest(w, p, o)
  \/ \E w \in Workers : FinishRound(w)
  \/ \E w \in Workers : TimerFires(w)
  \/ PoolCompletes

Spec == Init /\ [][Next]_vars

\* A Completer call of worker w (line 68) never returns: the worker stays at
\* the await of line 469 for good.  One call of the run may hang.
CallHangs(w) ==
  /\ bpc = "running"
  /\ wpc[w] = "awaiting"
  /\ pending[w] # {}
  /\ \A v \in Workers : wpc[v] # "hung"
  /\ wpc' = [wpc EXCEPT ![w] = "hung"]
  /\ UNCHANGED << config, now, bpc, openaiEnabled, portkeyEnabled, startTime,
                  sharedState, nextWorker, currentRequestNumber, requestStart,
                  pending, roundResults, callStart, results, exitReason, claimed,
                  completerCalls, completerErrors >>
  /\ UNCHANGED preflightVars
  /\ UNCHANGED callVars

NextWithHang ==
  \/ Next
  \/ \E w \in Workers : CallHangs(w)

\* The runs in which a Completer call may hang.
HangSpec == Init /\ [][NextWithHang]_vars

\* The program does not stop while a step is possible: the event loop runs a
\* callback that is ready, a Completer call or a timer that is pending ends,
\* or the clock advances.
Fairness == WF_vars(Next)

FairSpec == Spec /\ Fairness

\* Every call but the hung one returns.
FairHangSpec == HangSpec /\ Fairness

\* ------------------------------------------- the single-mode variant
\* src/unnamed/part_002 is the benchmark without modes: it always tests both
\* providers, as the comparison mode of src/benchmark.js does.  LegacySpec
\* follows its preflight and the start of its load phase.
LegacyInit == Init /\ config.mode = "comparison"

LegacyNext ==
  \/ Tick
  \/ BeginPreflight
  \/ \E o \in ProbeOutcomes : ProbeReturnsWith(o, TRUE)
  \/ StartLoadPhase

LegacySpec == LegacyInit /\ [][LegacyNext]_vars

\* ------------------------------------------------------ every mode value
\* The mode values a config can hold: the two modes, no mode, the empty
\* string, and a string that is no mode.
RawModes == {"comparison", "loadtest", Omitted, "", "stress"}

ModeConfigs ==
  [mode : RawModes,
   prompt : {"string"},
   concurrency : 1 .. MaxConcurrency,
   maxRequests : {MaxRequests},
   testDuration : {0}]

\* new PortkeyBenchmark(config), for a config with any mode value.
ModeInit ==
  /\ args = NoCall
  /\ ret = NotCalled
  /\ config \in ModeConfigs
  /\ IF InvalidMode THEN ConstructorThrew ELSE Constructed

ModeSpec == ModeInit /\ [][Next]_vars

\* ------------------------------------------------- one round, in detail
\* The pool model above keeps the control flow of the workers and none of the
\* clock readings of makeRequest: its records are untimed.  RoundSpec follows
\* one round of a single worker reading by reading: requestStartTime (line
\* 458), then the startTime of each makeRequest call (line 55) in the order of
\* lines 461-467, then the endTime of each call (lines 79, 103).  The clock
\* may advance between any two readings.

\* The runs RoundSpec follows: one worker, one round.
RoundConfigs ==
  [mode : {"comparison", "loadtest"},
   prompt : {"string", "array"},
   concurrency : {1},
   maxRequests : {1},
   testDuration : {0}]

\* The state in which runBenchmark starts the workers (line 384), the
\* preflight having passed at once.
RoundInit ==
  /\ args = NoCall
  /\ ret = NotCalled
  /\ config \in RoundConfigs
  /\ now = 0
  /\ bpc = "starting"
  /\ probe = NoProbe
  /\ testResults = [openai |-> NoResult, portkey |-> NoResult]
  /\ probeCalls = [p \in Providers |-> IF p \in ActiveProviders THEN 1 ELSE 0]
  /\ thrown = "none"
  /\ openaiEnabled = shouldTestOpenAI
  /\ portkeyEnabled = shouldTestPortkey
  /\ startTime = 0
  /\ sharedState = NewSharedState
  /\ nextWorker = 0
  /\ wpc = [w \in Workers |-> "notStarted"]
  /\ currentRequestNumber = [w \in Workers |-> 0]
  /\ requestStart = [w \in Workers |-> 0]
  /\ pending = [w \in Workers |-> {}]
  /\ roundResults = [w \in Workers |-> {}]
  /\ callStart = [p \in Providers |-> 0]
  /\ results = [openai |-> << >>, portkey |-> << >>]
  /\ exitReason = [w \in Workers |-> "none"]
  /\ claimed = << >>
  /\ completerCalls = [p \in Providers |-> 0]
  /\ completerErrors = [p \in Providers |-> 0]

\* Date.now() advances.
RoundTick ==
  /\ bpc \in {"starting", "running"}
  /\ now < MaxRoundTicks * ClockStep
  /\ now' = now + ClockStep
  /\ UNCHANGED << config, bpc, openaiEnabled, portkeyEnabled, startTime >>
  /\ UNCHANGED preflightVars
  /\ UNCHANGED poolVars
  /\ UNCHANGED callVars

\* runBenchmark starts the worker (line 385), which runs to line 459.
RoundStarts ==
  /\ bpc = "starting"
  /\ nextWorker = 0
  /\ LoopIterationWith(0, TRUE)
  /\ nextWorker' = 1
  /\ bpc' = "running"
  /\ UNCHANGED << config, now, openaiEnabled, portkeyEnabled, startTime >>
  /\ UNCHANGED preflightVars
  /\ UNCHANGED callVars

\* The provider of the next makeRequest call of the round (lines 461-467).
NextProvider(w) ==
  IF openaiEnabled /\ "openai" \notin pending[w] THEN "openai" ELSE "portkey"

\* Line 462 or 466: makeRequest is called; it reads its startTime (line 55)
\* and calls the Completer (line 68).  After the last call of the round the
\* worker is at the await of line 469.
CallMakeRequest ==
  /\ wpc[0] = "calling"
  /\ LET p == NextProvider(0)
         called == pending[0] \cup {p}
     IN /\ callStart' = [callStart EXCEPT ![p] = now]
        /\ pending' = [pending EXCEPT ![0] = called]
        /\ completerCalls' = [completerCalls EXCEPT ![p] = @ + CallsMade(config.prompt)]
        /\ wpc' = [wpc EXCEPT ![0] =
                     IF called = EnabledProviders THEN "awaiting" ELSE "calling"]
  /\ UNCHANGED << config, now, bpc, openaiEnabled, portkeyEnabled, startTime,
                  sharedState, nextWorker, currentRequestNumber, requestStart,
                  roundResults, results, exitReason, claimed, completerErrors >>
  /\ UNCHANGED preflightVars
  /\ UNCHANGED callVars

\* Mutant: the calls are awaited one by one, a call may return while the
\* next one of the round is not sent yet.
RoundAwaitedEach(w) == wpc[w] \in {"calling", "awaiting"}

\* The worker is at the await of line 469: only then can a continuation of
\* one of its makeRequest calls run.
RoundAwaited(w) == wpc[w] = "awaiting"

\* The responses the calls of the round are tried with: no headers object;
\* no header of a processing time; the first listed header with a time, with
\* a zero, a negative number, a text that is no number, a number followed by
\* a unit; a zero in the first listed header and a time in a later one; a
\* time in a header that is not listed.
RoundResponses ==
  {NoHeaders,
   Headers(<< Header("content-type", "application/json") >>),
   Headers(<< Header("openai-processing-ms", "800") >>),
   Headers(<< Header("openai-processing-ms", "0") >>),
   Headers(<< Header("openai-processing-ms", "-5") >>),
   Headers(<< Header("openai-processing-ms", "abc") >>),
   Headers(<< Header("openai-processing-ms", "12ms") >>),
   Headers(<< Header("openai-processing-ms", "0"), Header("x-request-time", "350") >>),
   Headers(<< Header("x-upstream-processing-time", "350") >>)}

\* The outcomes the calls of the round are tried with: each response, with
\* and without a usage, and an error with each combination of the substrings
\* the catch block looks for.
RoundOutcomes ==
  {Resolves(r, Usage(10, 20)) : r \in RoundResponses}
    \cup {Resolves(NoHeaders, NoUsage)}
    \cup {Raises(m) : m \in SUBSET ErrorMarks}

\* A Completer call of the round ends: makeRequest reads its endTime and
\* settles with its record (lines 79-129).
TimedCompleteRequest(p, outcome) ==
  /\ bpc = "running"
  /\ RoundAwaited(0)
  /\ p \in pending[0]
  /\ pending' = [pending EXCEPT ![0] = @ \ {p}]
  /\ LET tried == TryOutcome(config.prompt, outcome)
     IN /\ roundResults' = [roundResults EXCEPT ![0] =
                 @ \cup {MakeRequest(p, callStart[p], now, tried)}]
        /\ completerErrors' = [completerErrors EXCEPT ![p] =
                 @ + IF tried.ok THEN 0 ELSE CallsMade(config.prompt)]
        /\ completerCalls' = [completerCalls EXCEPT ![p] = @ + CatchCalls(tried)]
  /\ UNCHANGED << config, now, bpc, openaiEnabled, portkeyEnabled, startTime,
                  sharedState, nextWorker, wpc, currentRequestNumber,
                  requestStart, callStart, results, exitReason, claimed >>
  /\ UNCHANGED preflightVars
  /\ UNCHANGED callVars

RoundNext ==
  \/ RoundTick
  \/ RoundStarts
  \/ CallMakeRequest
  \/ \E p \in Providers, o \in RoundOutcomes : TimedCompleteRequest(p, o)
  \/ FinishRound(0)
  \/ TimerFires(0)
  \/ PoolCompletes

RoundSpec == RoundInit /\ [][RoundNext]_vars

\* ------------------------------------------------------------ calculateStats
\* A number of the statistics is a fraction num / den of integers, den >= 0,
\* so that the divisions of lines 585-595 and 617 are exact; a division by
\* zero gives den = 0: NaN when num = 0 too, an infinity otherwise.
Rat(num, den) == [num |-> num, den |-> den]

Int2Rat(n) == Rat(n, 1)

IsNaN(x) == x.den = 0 /\ x.num = 0

IsInfinity(x) == x.den = 0 /\ x.num # 0

IsFinite(x) == x.den # 0

\* x === y for two finite numbers.
RatEq(x, y) == IsFinite(x) /\ IsFinite(y) /\ x.num * y.den = y.num * x.den

\* x - y (NaN when either is NaN or both are the same infinity).
RatSub(x, y) ==
  IF IsFinite(x) /\ IsFinite(y) THEN Rat(x.num * y.den - y.num * x.den, x.den * y.den)
  ELSE IF IsNaN(x) \/ IsNaN(y) THEN Rat(0, 0)
  ELSE IF IsFinite(y) THEN x
  ELSE IF IsFinite(x) THEN Rat(0 - y.num, 0)
  ELSE IF (x.num > 0) = (y.num > 0) THEN Rat(0, 0) ELSE x

\* x / y * 100 for finite x and y: NaN for 0 / 0, an infinity of the sign of
\* x for x / 0.
RatPercentOf(x, y) ==
  IF y.num = 0 THEN Rat(x.num, 0)
  ELSE IF y.num > 0 THEN Rat(100 * x.num * y.den, x.den * y.num)
  ELSE Rat(0 - 100 * x.num * y.den, 0 - x.den * y.num)

\* array.filter(keep) for a set of indices to keep.
RECURSIVE FilterSeq(_, _, _)
FilterSeq(array, keep, i) ==
  IF i > Len(array) THEN << >>
  ELSE (IF i \in keep THEN << array[i] >> ELSE << >>) \o FilterSeq(array, keep, i + 1)

\* results.filter(r => r.success) (line 538).
Successful(records) ==
  FilterSeq(records, {i \in 1 .. Len(records) : records[i].success}, 1)

\* results.filter(r => !r.success) (line 539).
Failed(records) ==
  FilterSeq(records, {i \in 1 .. Len(records) : ~records[i].success}, 1)

\* array.map(r => r[field])
Map(array, field) == [i \in 1 .. Len(array) |-> array[i][field]]

\* Mutant: the null values are kept.
NonNullAll(values) == values

\* values.filter(t => t !== null) (lines 560-561).
NonNull(values) == FilterSeq(values, {i \in 1 .. Len(values) : values[i] # null}, 1)

\* values.reduce((sum, t) => sum + t, 0)
RECURSIVE Sum(_)
Sum(values) == IF values = << >> THEN 0 ELSE Head(values) + Sum(Tail(values))

\* values.sort((a, b) => a - b): v put in its place in an ascending array,
\* and the array sorted by putting its elements in place one by one.
RECURSIVE Insert(_, _)
Insert(sorted, v) ==
  IF sorted = << >> THEN << v >>
  ELSE IF v <= Head(sorted) THEN << v >> \o sorted
  ELSE << Head(sorted) >> \o Insert(Tail(sorted), v)

RECURSIVE SortAscending(_)
SortAscending(values) ==
  IF values = << >> THEN << >>
  ELSE Insert(SortAscending(Tail(values)), Head(values))

\* Mutant: no interpolation, the lower element is returned.
CalculatePercentileLower(sortedArray, percentile) ==
  IF Len(sortedArray) = 0 THEN Int2Rat(0)
  ELSE Int2Rat(sortedArray[((percentile * (Len(sortedArray) - 1)) \div 100) + 1])

\* Mutant: the index is counted from the top of the array.
CalculatePercentileFromTop(sortedArray, percentile) ==
  IF Len(sortedArray) = 0 THEN Int2Rat(0)
  ELSE Int2Rat(sortedArray[Len(sortedArray) - ((percentile * (Len(sortedArray) - 1)) \div 100)])

\* calculatePercentile (lines 566-581), for a whole percentile.  The index
\* percentile / 100 * (length - 1) is lower + weight / 100; sortedArray[k] of
\* the code is sortedArray[k + 1] here.
CalculatePercentile(sortedArray, percentile) ==
  IF Len(sortedArray) = 0 THEN Int2Rat(0)
  ELSE IF Len(sortedArray) = 1 THEN Int2Rat(sortedArray[1])
  ELSE LET index100 == percentile * (Len(sortedArray) - 1)
           lower == index100 \div 100
           upper == IF index100 % 100 = 0 THEN lower ELSE lower + 1
           weight100 == index100 - 100 * lower
       IN IF lower = upper THEN Int2Rat(sortedArray[lower + 1])
          ELSE Rat(sortedArray[lower + 1] * (100 - weight100)
                     + sortedArray[upper + 1] * weight100, 100)

\* The object of lines 542-556.
NoSuccessStats ==
  [count |-> 0,
   successRate |-> Int2Rat(0),
   failureRate |-> Int2Rat(100),
   avgTotalTime |-> Int2Rat(0),
   avgOpenAITime |-> Int2Rat(0),
   avgNetworkLatency |-> Int2Rat(0),
   medianTotalTime |-> Int2Rat(0),
   p95TotalTime |-> Int2Rat(0),
   p99TotalTime |-> Int2Rat(0),
   minTotalTime |-> Int2Rat(0),
   maxTotalTime |-> Int2Rat(0),
   totalTokens |-> 0,
   avgTokensPerRequest |-> Int2Rat(0)]

\* Mutant: the test of line 541 is never true.
HasNoSuccessNever(successfulResults) == FALSE

\* successfulResults.length === 0 (line 541).
HasNoSuccess(successfulResults) == Len(successfulResults) = 0

\* array[i] || 0 for the zero-based index i (lines 592-593).
ElementOrZero(array, i) ==
  IF i + 1 \in 1 .. Len(array) /\ array[i + 1] # 0 THEN array[i + 1] ELSE 0

\* values.length > 0 ? sum / values.length : 0 (lines 587-588).
AverageOrZero(values) ==
  IF Len(values) > 0 THEN Rat(Sum(values), Len(values)) ELSE Int2Rat(0)

\* calculateStats(results) (lines 537-596), records being its results.
CalculateStats(records) ==
  LET successfulResults == Successful(records)
      failedResults == Failed(records)
  IN IF HasNoSuccess(successfulResults) THEN NoSuccessStats
     ELSE LET totalTimes == SortAscending(Map(successfulResults, "totalTime"))
              openaiTimes == NonNull(Map(successfulResults, "openaiProcessingTime"))
              networkLatencies == NonNull(Map(successfulResults, "networkLatency"))
              totalTokens == Sum(Map(successfulResults, "tokensUsed"))
          IN [count |-> Len(records),
              successfulCount |-> Len(successfulResults),
              failedCount |-> Len(failedResults),
              successRate |-> Rat(100 * Len(successfulResults), Len(records)),
              failureRate |-> Rat(100 * Len(failedResults), Len(records)),
              avgTotalTime |-> Rat(Sum(totalTimes), Len(totalTimes)),
              avgOpenAITime |-> AverageOrZero(openaiTimes),
              avgNetworkLatency |-> AverageOrZero(networkLatencies),
              medianTotalTime |-> CalculatePercentile(totalTimes, 50),
              p95TotalTime |-> CalculatePercentile(totalTimes, 95),
              p99TotalTime |-> CalculatePercentile(totalTimes, 99),
              minTotalTime |-> Int2Rat(ElementOrZero(totalTimes, 0)),
              maxTotalTime |-> Int2Rat(ElementOrZero(totalTimes, Len(totalTimes) - 1)),
              totalTokens |-> totalTokens,
              avgTokensPerRequest |-> Rat(totalTokens, Len(successfulResults))]

\* ------------------------------------------------------------ generateReport
\* summary.comparison when the test of line 614 fails.
NoComparison == [absent |-> TRUE]

\* Math.max(a, b) (line 607).
Max(a, b) == IF a >= b THEN a ELSE b

\* The summary of generateReport (lines 602-622) for the two result
\* collections and the mode of the config.
Summary(openai, portkey, mode) ==
  LET openaiStats == CalculateStats(openai)
      portkeyStats == CalculateStats(portkey)
      latencyOverhead == RatSub(portkeyStats.avgTotalTime, openaiStats.avgTotalTime)
  IN [totalRequests |-> Max(Len(openai), Len(portkey)),
      openaiStats |-> openaiStats,
      portkeyStats |-> portkeyStats,
      comparison |->
        IF ModeOrDefault(mode) = "comparison" /\ Len(openai) > 0 /\ Len(portkey) > 0
        THEN [latencyOverhead |-> latencyOverhead,
              latencyOverheadPercentage |->
                RatPercentOf(latencyOverhead, openaiStats.avgTotalTime),
              networkLatencyDiff |->
                RatSub(portkeyStats.avgNetworkLatency, openaiStats.avgNetworkLatency),
              successRateDiff |->
                RatSub(portkeyStats.successRate, openaiStats.successRate)]
        ELSE NoComparison]

\* ------------------------------------------- functions called on their own
\* The specifications below call one function of the program on arguments
\* drawn from a bounded set, on an object that was constructed and has not
\* run; the call returns in one step and leaves the object alone.
programVars == << config, now, bpc, probe, testResults, probeCalls, thrown,
                  openaiEnabled, portkeyEnabled, startTime, sharedState,
                  nextWorker, wpc, currentRequestNumber, requestStart, pending,
                  roundResults, callStart, results, exitReason, claimed,
                  completerCalls, completerErrors >>

\* The object the functions are called on.
CalledOn ==
  /\ config = [mode |-> "comparison", prompt |-> "string", concurrency |-> 1,
               maxRequests |-> 1, testDuration |-> 0]
  /\ Constructed

Call(function, arguments) == [called |-> TRUE, function |-> function, of |-> arguments]

Return(value) == [returned |-> TRUE, threw |-> FALSE, value |-> value]

\* ---- extractOpenAIProcessingTime
\* The header keys of the responses: the first listed name, a listed name
\* that the search of the other headers would pass over, a listed name that
\* it would accept, a name that is not listed and that it accepts, and a name
\* of no interest.
HeaderKeys ==
  {"openai-processing-ms", "x-request-time", "processing-time",
   "x-upstream-processing-time", "content-type"}

\* The header texts: two times, a zero, a negative number, a text that is no
\* number, a number followed by a unit.
HeaderTexts == {"800", "350", "0", "-5", "abc", "12ms"}

\* The entries of a Headers object: at most MaxHeaders headers, each key once.
HeaderLists ==
  UNION {{e \in [1 .. n -> [key : HeaderKeys, value : HeaderTexts]] :
            \A i, j \in 1 .. n : e[i].key = e[j].key => i = j} : n \in 0 .. MaxHeaders}

Responses == {NoHeaders} \cup {Headers(e) : e \in HeaderLists}

ExtractInit ==
  /\ args \in {Call("extractOpenAIProcessingTime", r) : r \in Responses}
  /\ ret = NotCalled
  /\ CalledOn

ExtractReturns ==
  /\ args.called /\ args.function = "extractOpenAIProcessingTime"
  /\ ret = NotCalled
  /\ ret' = Return(ExtractOpenAIProcessingTime(args.of))
  /\ UNCHANGED args
  /\ UNCHANGED programVars

ExtractSpec == ExtractInit /\ [][ExtractReturns]_vars

\* ---- testPrompt of runPreflightTest
\* A string prompt is its sequence of characters, an array prompt its
\* sequence of messages.
StringPrompt(chars) == [type |-> "string", chars |-> chars]

ArrayPrompt(messages) == [type |-> "array", messages |-> messages]

\* The n-th character of the string prompts of the model.
CharAt(n) == IF n % 2 = 0 THEN "a" ELSE "b"

Ellipsis == << ".", ".", "." >>

\* text.substring(0, end)
Substring(chars, end) == SubSeq(chars, 1, IF end < Len(chars) THEN end ELSE Len(chars))

\* Mutant: the string is cut and nothing is added.
TestPromptCutOnly(prompt) ==
  IF prompt.type = "string"
  THEN StringPrompt(Substring(prompt.chars, PreflightPromptLimit))
  ELSE prompt

\* testPrompt (lines 201-203).
TestPrompt(prompt) ==
  IF prompt.type = "string"
  THEN StringPrompt(Substring(prompt.chars, PreflightPromptLimit)
                      \o (IF Len(prompt.chars) > PreflightPromptLimit THEN Ellipsis ELSE << >>))
  ELSE prompt

\* The prompts of the model: the strings of up to MaxPromptLength characters,
\* and the arrays of up to two messages.
Prompts ==
  {StringPrompt([i \in 1 .. n |-> CharAt(i)]) : n \in 0 .. MaxPromptLength}
    \cup {ArrayPrompt(SubSeq(<< [role |-> "system", content |-> "s"],
                               [role |-> "user", content |-> "u"] >>, 1, n)) : n \in 0 .. 2}

PromptInit ==
  /\ args \in {Call("testPrompt", q) : q \in Prompts}
  /\ ret = NotCalled
  /\ CalledOn

TestPromptReturns ==
  /\ args.called /\ args.function = "testPrompt"
  /\ ret = NotCalled
  /\ ret' = Return(TestPrompt(args.of))
  /\ UNCHANGED args
  /\ UNCHANGED programVars

PromptSpec == PromptInit /\ [][TestPromptReturns]_vars

\* ---- calculateStats
\* The Request Records of the collections: makeRequest returned them for a
\* call sent at time 0 that resolved after 900, 1000 or 1206 ms, with a
\* processing time of 800 ms or none, or that raised an error after 5000 ms.
StatRecords ==
  {MakeRequestTry("portkey", 0, t, o).value : t \in {900, 1000, 1206}, o \in {Timed, Untold}}
    \cup {MakeRequestCatch("portkey", 0, 5000, Raises({"timeout"})).value}

\* The collections of at most MaxRecords records.
Collections == UNION {[1 .. n -> StatRecords] : n \in 0 .. MaxRecords}

StatsInit ==
  /\ args \in {Call("calculateStats", c) : c \in Collections}
  /\ ret = NotCalled
  /\ CalledOn

CalculateStatsReturns ==
  /\ args.called /\ args.function = "calculateStats"
  /\ ret = NotCalled
  /\ ret' = Return(CalculateStats(args.of))
  /\ UNCHANGED args
  /\ UNCHANGED programVars

StatsSpec == StatsInit /\ [][CalculateStatsReturns]_vars

\* ---- calculatePercentile
\* The total times of the arrays, and the ascending arrays of one to
\* MaxRecords of them.
ArrayTimes == {0, 900, 1000, 1206}

SortedArrays ==
  UNION {{a \in [1 .. n -> ArrayTimes] : \A i \in 1 .. (n - 1) : a[i] <= a[i + 1]} :
           n \in 1 .. MaxRecords}

\* The whole percentiles from 0 to 100.
Percentiles == 0 .. 100

PercentileInit ==
  /\ args \in {Call("calculatePercentile", [sortedArray |-> a, percentile |-> q]) :
                 a \in SortedArrays, q \in Percentiles}
  /\ ret = NotCalled
  /\ CalledOn

CalculatePercentileReturns ==
  /\ args.called /\ args.function = "calculatePercentile"
  /\ ret = NotCalled
  /\ ret' = Return(CalculatePercentile(args.of.sortedArray, args.of.percentile))
  /\ UNCHANGED args
  /\ UNCHANGED programVars

PercentileSpec == PercentileInit /\ [][CalculatePercentileReturns]_vars

\* ---- generateReport
\* The records of provider p in the result collections of a run that is
\* over: a success with a processing time, a success without, a failure.
ReportRecords(p) ==
  {MakeRequestTry(p, 0, 1000, Timed).value,
   MakeRequestTry(p, 0, 1206, Untold).value,
   MakeRequestCatch(p, 0, 5000, Raises({"timeout"})).value}

\* this.results and the mode at the end of a run of n rounds: in comparison
\* mode a record of each provider for every round, in loadtest mode those of
\* the proxy only.
ReportInputs ==
  UNION {[openai : [1 .. n -> ReportRecords("openai")],
          portkey : [1 .. n -> ReportRecords("portkey")],
          mode : {"comparison"}]
           \cup [openai : {<< >>},
                 portkey : [1 .. n -> ReportRecords("portkey")],
                 mode : {"loadtest"}] : n \in 0 .. MaxRecords}

ReportInit ==
  /\ args \in {Call("generateReport", r) : r \in ReportInputs}
  /\ ret = NotCalled
  /\ CalledOn

GenerateReportReturns ==
  /\ args.called /\ args.function = "generateReport"
  /\ ret = NotCalled
  /\ ret' = Return(Summary(args.of.openai, args.of.portkey, args.of.mode))
  /\ UNCHANGED args
  /\ UNCHANGED programVars

ReportSpec == ReportInit /\ [][GenerateReportReturns]_vars

\* ------------------------------------------------------------------- main
\* The config main has parsed from the file: a prompt or none, any mode
\* value, each API key or none, and for each test parameter no value (null),
\* zero or a positive number.
FileConfigs ==
  [mode : RawModes,
   prompt : {Omitted, "", "string", "array"},
   portkeyApiKey : {Omitted, "", "pk-key"},
   openaiApiKey : {Omitted, "", "sk-key"},
   concurrency : {null} \cup 0 .. MaxConcurrency,
   maxRequests : {null} \cup 0 .. MaxRequests,
   testDuration : {null} \cup 0 .. MaxDuration]

\* !value for a text of the config (lines 737, 744, 747, 752).
Missing(value) == value \in Falsy

\* Mutant: the key of the direct provider is not asked for.
ValidationErrorNoOpenAIKey(c) ==
  IF Missing(c.prompt) THEN "missingPrompt"
  ELSE IF ModeOrDefault(c.mode) \in {"comparison", "loadtest"}
       THEN IF Missing(c.portkeyApiKey) THEN "missingPortkeyApiKey" ELSE "none"
       ELSE "invalidMode"

\* The error the validation of lines 735-758 throws for config c, "none"
\* when it throws none.
ValidationError(c) ==
  IF Missing(c.prompt) THEN "missingPrompt"
  ELSE IF ModeOrDefault(c.mode) = "comparison"
       THEN IF Missing(c.portkeyApiKey) THEN "missingPortkeyApiKey"
            ELSE IF Missing(c.openaiApiKey) THEN "missingOpenaiApiKey"
            ELSE "none"
  ELSE IF ModeOrDefault(c.mode) = "loadtest"
       THEN IF Missing(c.portkeyApiKey) THEN "missingPortkeyApiKey" ELSE "none"
  ELSE "invalidMode"

\* Mutant: only an absent value is replaced.
OrDefaultAbsentOnly(value, default) == IF value = null THEN default ELSE value

\* value || default for a number of the config (lines 761-763).
OrDefault(value, default) == IF value = null \/ value = 0 THEN default ELSE value

\* The config after lines 761-763.
WithDefaults(c) ==
  [c EXCEPT !.concurrency = OrDefault(@, DefaultConcurrency),
            !.maxRequests = OrDefault(@, DefaultMaxRequests),
            !.testDuration = OrDefault(@, DefaultTestDuration)]

\* main has read and parsed the config file; no benchmark exists.
MainInit ==
  /\ args \in {Call("main", c) : c \in FileConfigs}
  /\ ret = NotCalled
  /\ config = args.of
  /\ AfterConstructor("main", "none")

\* main from line 735 to its first await: the validation throws and the
\* catch block exits, or the defaults are set, the benchmark is constructed
\* and runBenchmark is called.
MainValidates ==
  /\ bpc = "main"
  /\ IF ValidationError(config) # "none"
     THEN /\ thrown' = ValidationError(config)
          /\ bpc' = "exited"
          /\ UNCHANGED config
     ELSE /\ config' = WithDefaults(config)
          /\ bpc' = "constructed"
          /\ UNCHANGED thrown
  /\ UNCHANGED << now, probe, testResults, probeCalls, openaiEnabled,
                  portkeyEnabled, startTime >>
  /\ UNCHANGED poolVars
  /\ UNCHANGED callVars

MainSpec == MainInit /\ [][MainValidates]_vars

\* ----------------------------------------------------------------- claims
LoadPhase == sharedState # Undefined

\* The records of provider p a worker holds or the pool has appended.
FailureRecords(p) ==
  Cardinality({i \in 1 .. Len(results[p]) : ~results[p][i].success}) +
  Cardinality({w \in Workers : \E x \in roundResults[w] :
                 /\ x.status = "fulfilled"
                 /\ x.value.provider = p
                 /\ ~x.value.success})

\* C1: the sequence numbers the workers capture are pairwise distinct and are
\* exactly 1..requestCount, in every interleaving: the k-th capture is k, and
\* two workers with a round in flight hold different numbers.
C1_DistinctSequenceNumbers ==
  LoadPhase =>
    /\ Len(claimed) = sharedState.requestCount
    /\ \A i \in 1 .. Len(claimed) : claimed[i] = i
    /\ \A v, w \in Workers :
         (v # w /\ wpc[v] = "awaiting" /\ wpc[w] = "awaiting")
           => currentRequestNumber[v] # currentRequestNumber[w]

\* Two workers have each a round in flight, with the numbers 1 and 2.
C1_Witness ==
  \E v, w \in Workers :
    /\ wpc[v] = "awaiting" /\ wpc[w] = "awaiting"
    /\ currentRequestNumber[v] = 1 /\ currentRequestNumber[w] = 2

\* C2: with maxRequests = M >= 1, a pool that completed without the time limit
\* firing has the max-requests flag set, the counter at exactly M, and exactly
\* M records for each enabled provider.
C2_ExactlyMaxRequests ==
  (bpc = "done" /\ config.maxRequests >= 1 /\ ~sharedState.timeLimit) =>
    /\ sharedState.maxRequestsReached
    /\ sharedState.requestCount = config.maxRequests
    /\ \A p \in EnabledProviders : Len(results[p]) = config.maxRequests

\* Two workers, maxRequests = 2, both providers: the pool completed on the
\* request limit with two records each.
C2_Witness ==
  /\ bpc = "done" /\ config.concurrency = 2 /\ config.maxRequests = 2
  /\ config.mode = "comparison"
  /\ sharedState.maxRequestsReached /\ sharedState.requestCount = 2
  /\ Len(results["openai"]) = 2 /\ Len(results["portkey"]) = 2

\* C3: in every state of the load phase at most one of maxRequestsReached and
\* timeLimit is true.
C3_OneTerminalReason ==
  LoadPhase => ~(sharedState.maxRequestsReached /\ sharedState.timeLimit)

\* The pool completed on the request limit although the time limit has
\* elapsed as well by then.
C3_Witness ==
  /\ bpc = "done"
  /\ TimeLimitReached(now) /\ MaxRequestsReached(sharedState)
  /\ sharedState.maxRequestsReached /\ ~sharedState.timeLimit

\* C4: during the load phase requestCount never decreases, and shouldStop,
\* maxRequestsReached and timeLimit, once true, stay true; the shared state is
\* not created anew.
C4_Monotonic ==
  [][LoadPhase =>
       /\ sharedState' # Undefined
       /\ sharedState'.requestCount >= sharedState.requestCount
       /\ sharedState.shouldStop => sharedState'.shouldStop
       /\ sharedState.maxRequestsReached => sharedState'.maxRequestsReached
       /\ sharedState.timeLimit => sharedState'.timeLimit]_vars

\* A worker has run its loop after the stop signal was raised, with requests
\* counted before.
C4_Witness ==
  /\ LoadPhase /\ sharedState.shouldStop /\ sharedState.requestCount = 2
  /\ \E w \in Workers : exitReason[w] = "stopSignal"

\* C5: once shouldStop is set no step increments the counter or issues a
\* Completer call, and a worker that then starts a loop iteration exits at the
\* first check; a round in flight is still appended: when the pool has
\* completed every claimed number has its record for each enabled provider.
C5_NoWorkAfterStop ==
  /\ [][(LoadPhase /\ sharedState.shouldStop) =>
          /\ sharedState'.requestCount = sharedState.requestCount
          /\ completerCalls' = completerCalls
          /\ \A w \in Workers :
               (wpc[w] \in {"notStarted", "sleeping"} /\ wpc'[w] # wpc[w])
                 => (wpc'[w] = "exited" /\ exitReason'[w] = "stopSignal")]_vars
  /\ [](bpc = "done" =>
          \A p \in EnabledProviders : Len(results[p]) = Len(claimed))

\* Worker 1 raised the stop signal while worker 0's round was in flight, and
\* that round has been appended since.
C5_Witness ==
  /\ LoadPhase
  /\ config.concurrency = 2 /\ config.maxRequests = 1
  /\ sharedState.shouldStop /\ exitReason[1] = "maxRequests"
  /\ wpc[0] = "sleeping" /\ Len(results["portkey"]) = 1

\* runPreflightTest has evaluated its probes (testResults still holds them).
PreflightEvaluated ==
  bpc = "preflightPassed" \/ thrown \in {"allFailed", "someFailed"}

\* Nothing of the load phase has happened.
NoLoadPhase ==
  /\ sharedState = Undefined
  /\ \A w \in Workers : wpc[w] = "notStarted"
  /\ claimed = << >>
  /\ \A p \in Providers : completerCalls[p] = 0
  /\ results = [openai |-> << >>, portkey |-> << >>]

\* C6: in comparison mode, when exactly one provider's probe failed,
\* runBenchmark is rejected with the partial-failure error and the load phase
\* never starts: no shared state, no worker, no sequence number, no load-phase
\* Completer call.
C6_PartialFailureAborts ==
  (/\ config.mode = "comparison"
   /\ testResults["openai"] # NoResult /\ testResults["portkey"] # NoResult
   /\ Cardinality(FailedProviders(testResults)) = 1)
    => (bpc = "rejected" /\ thrown = "someFailed" /\ NoLoadPhase /\ ~ENABLED Next)

\* The direct provider's probe succeeded, the proxy's failed, and the run was
\* rejected.
C6_Witness ==
  /\ config.mode = "comparison"
  /\ ProbeSuccess(testResults["openai"])
  /\ testResults["portkey"] # NoResult /\ ~ProbeSuccess(testResults["portkey"])
  /\ bpc = "rejected"

\* C7: runPreflightTest throws the all-failed error exactly when the failed
\* providers are the active ones (so every failure in loadtest mode), the
\* partial-failure error exactly when they are a non-empty strict subset, and
\* returns normally exactly when none failed.
C7_PreflightVerdict ==
  PreflightEvaluated =>
    LET failed == FailedProviders(testResults) IN
      /\ thrown = "allFailed" <=> failed = ActiveProviders
      /\ thrown = "someFailed" <=> (failed # {} /\ failed # ActiveProviders)
      /\ bpc = "preflightPassed" <=> failed = {}
      /\ config.mode = "loadtest" => thrown # "someFailed"

\* In loadtest mode the single probe failed: the error is all-failed.
C7_Witness ==
  /\ config.mode = "loadtest"
  /\ testResults["portkey"] # NoResult /\ ~ProbeSuccess(testResults["portkey"])
  /\ thrown = "allFailed"

C9_TimeLimitStops ==
  /\ (bpc = "starting" /\ config.testDuration # 0 /\ config.maxRequests = 0)
       ~> (bpc = "done" /\ sharedState.timeLimit /\ ~sharedState.maxRequestsReached)
  /\ [](bpc = "done" /\ config.testDuration # 0 /\ config.maxRequests = 0
          => sharedState.timeLimit /\ ~sharedState.maxRequestsReached)

\* Two workers, a duration and no request limit: the pool completed on the
\* time limit after requests were made.
C9_Witness ==
  /\ bpc = "done" /\ config.testDuration # 0 /\ config.maxRequests = 0
  /\ config.concurrency = 2 /\ sharedState.timeLimit
  /\ sharedState.requestCount = 2

\* C10: with maxRequests configured, a load phase that has started reaches the
\* report, and it does so only when each of the N workers has exited its loop.
C10_PoolTerminates ==
  /\ (bpc = "starting" /\ config.maxRequests # 0) ~> (bpc = "done")
  /\ [](bpc = "done" =>
          \A w \in Workers : w < config.concurrency => wpc[w] = "exited")

\* The pool of two workers completed with maxRequests = 2 and no duration.
C10_Witness ==
  /\ bpc = "done" /\ config.maxRequests = 2 /\ config.testDuration = 0
  /\ config.concurrency = 2
  /\ wpc[0] = "exited" /\ wpc[1] = "exited"

\* Neither maxRequests nor testDuration is configured.
Unbounded == config.maxRequests = 0 /\ config.testDuration = 0

\* C11: with neither maxRequests nor testDuration configured, in the load
\* phase no worker exits, shouldStop and both terminal flags stay false, the
\* pool never completes (so no stop reason, "completed naturally" included, is
\* reported), and the counter keeps growing: it reaches every value the model
\* lets it take.
C11_RunsIndefinitely ==
  /\ []((LoadPhase /\ Unbounded) =>
          /\ ~sharedState.shouldStop
          /\ ~sharedState.maxRequestsReached
          /\ ~sharedState.timeLimit
          /\ \A w \in Workers : wpc[w] \notin {"exited", "rejected"}
          /\ bpc \in {"starting", "running"})
  /\ (LoadPhase /\ Unbounded) ~> (LoadPhase /\ sharedState.requestCount = CountCap)

\* Two workers without any bound have claimed every number the model allows
\* and are both between two rounds, their records appended.
C11_Witness ==
  /\ LoadPhase /\ Unbounded /\ config.concurrency = 2
  /\ sharedState.requestCount = CountCap
  /\ wpc[0] = "sleeping" /\ wpc[1] = "sleeping"
  /\ Len(results["portkey"]) = CountCap

\* Worker v's Completer call never returns.
Hung(v) == wpc[v] = "hung"

\* The workers of the pool whose calls return.
Others == {w \in Workers : w < config.concurrency /\ ~Hung(w)}

\* C12: when a Completer call of a worker never returns, that worker never
\* exits and the pool does not complete, while the other workers go on: with
\* a bound configured each of them exits, and with maxRequests = M alone the
\* others, if there are any, claim every number up to M and append the record
\* of every round but the hung one.
C12_HungCallStallsOneWorker ==
  /\ [][\A v \in Workers : Hung(v) => wpc'[v] = "hung"]_vars
  /\ []((\E v \in Workers : Hung(v)) => bpc = "running")
  /\ ((\E v \in Workers : Hung(v)) /\ ~Unbounded)
       ~> (/\ \A w \in Others : wpc[w] = "exited"
           /\ (Others # {} /\ config.maxRequests # 0 /\ config.testDuration = 0)
                => (/\ sharedState.requestCount = config.maxRequests
                    /\ \A p \in EnabledProviders :
                         Len(results[p]) = config.maxRequests - 1))

\* Worker 0's first call hung; worker 1 has claimed the second number,
\* appended its record and exited on the request limit.
C12_Witness ==
  /\ Hung(0) /\ currentRequestNumber[0] = 1
  /\ config.concurrency = 2 /\ config.maxRequests = 2
  /\ currentRequestNumber[1] = 2 /\ exitReason[1] = "maxRequests"
  /\ Len(results["portkey"]) = 1

\* The workers whose round is in flight.
InFlight == {w \in Workers : wpc[w] = "awaiting"}

\* The record of provider p among the settled calls of a round.
RecordOf(settled, p) == (CHOOSE x \in settled : x.value.provider = p).value

\* C13: a worker entering a round issues the call of every enabled provider
\* in that one step; while the round is in flight none of its records is in
\* results (each list holds one record per round that is over); the records
\* of a round are appended in one step, one to each enabled provider's list,
\* when no call of the round is pending; so in comparison mode the two lists
\* have the same length in every state, and the records at one index were
\* appended together from one round.
C13_RoundAppendedAtOnce ==
  /\ [](LoadPhase =>
          /\ \A p \in EnabledProviders :
               Len(results[p]) = completerCalls[p] - Cardinality(InFlight)
          /\ config.mode = "comparison"
               => Len(results["openai"]) = Len(results["portkey"])
          /\ \A w \in InFlight :
               {x.value.provider : x \in roundResults[w]}
                 = EnabledProviders \ pending[w])
  /\ [][\A w \in Workers :
          (wpc[w] # "awaiting" /\ wpc'[w] = "awaiting") =>
            /\ pending'[w] = EnabledProviders
            /\ \A p \in EnabledProviders :
                 completerCalls'[p] = completerCalls[p] + 1]_vars
  /\ [][results' # results =>
          \E w \in InFlight :
            /\ pending[w] = {}
            /\ wpc'[w] = "sleeping"
            /\ \A p \in Providers :
                 results'[p] = IF p \in EnabledProviders
                               THEN Append(results[p], RecordOf(roundResults[w], p))
                               ELSE results[p]]_vars

\* Comparison mode, two workers: one round has been appended to both lists
\* while the other worker's round has its direct call back, a failure, and
\* its proxy call still pending.
C13_Witness ==
  /\ config.mode = "comparison" /\ config.concurrency = 2
  /\ Len(results["openai"]) = 1 /\ Len(results["portkey"]) = 1
  /\ \E w \in InFlight :
       /\ pending[w] = {"portkey"}
       /\ \E x \in roundResults[w] : x.value.provider = "openai" /\ ~x.value.success

\* C14 as stated: in comparison mode the two requests of a round have the
\* same start time (and the round's one sequence number).
C14_SameRoundStartTime ==
  (config.mode = "comparison" /\ wpc[0] = "awaiting")
    => callStart["openai"] = callStart["portkey"]

\* C14, amended: the two requests of a round are sent for the one sequence
\* number the worker captured, which stays the worker's until the records are
\* appended; both are sent before either returns; each record's totalTime is
\* measured from the start time its own makeRequest call read.
C14_OneSequenceNumberOwnStart ==
  /\ [][wpc[0] \in {"calling", "awaiting"} =>
          /\ currentRequestNumber'[0] = currentRequestNumber[0]
          /\ claimed' = claimed]_vars
  /\ [](wpc[0] = "calling" =>
          /\ roundResults[0] = {}
          /\ results = [openai |-> << >>, portkey |-> << >>])
  /\ [][\A x \in roundResults'[0] \ roundResults[0] :
          x.value.totalTime = now - callStart[x.value.provider]]_vars

\* Comparison mode: the clock advanced between the two makeRequest calls of
\* the round, both calls returned together, and the two records of the round
\* have different total times.
C14_Witness ==
  /\ config.mode = "comparison" /\ wpc[0] = "awaiting" /\ pending[0] = {}
  /\ currentRequestNumber[0] = 1
  /\ callStart["openai"] = 0 /\ callStart["portkey"] = ClockStep
  /\ \E x, y \in roundResults[0] :
       /\ x.value.provider = "openai" /\ y.value.provider = "portkey"
       /\ x.value.totalTime = 2 * ClockStep /\ y.value.totalTime = ClockStep

\* C15: a failed request is not retried.  A Completer call is made only in
\* the step that captures a fresh sequence number, one per enabled provider;
\* the step in which a call raises makes no call and gives no number back; so
\* the calls per provider never exceed requestCount (nor maxRequests), and a
\* pool that completed on maxRequests = M made exactly M calls per enabled
\* provider, the failed ones included.
C15_NoRetry ==
  /\ [](LoadPhase =>
          \A p \in Providers :
            /\ completerCalls[p] <= sharedState.requestCount
            /\ config.maxRequests # 0 => completerCalls[p] <= config.maxRequests)
  /\ []((bpc = "done" /\ config.maxRequests # 0 /\ ~sharedState.timeLimit) =>
          \A p \in EnabledProviders :
            /\ completerCalls[p] = config.maxRequests
            /\ Len(results[p]) = config.maxRequests)
  /\ [][\A p \in Providers :
          completerCalls'[p] # completerCalls[p] =>
            /\ completerCalls'[p] = completerCalls[p] + 1
            /\ sharedState'.requestCount = sharedState.requestCount + 1
            /\ claimed' = Append(claimed, sharedState'.requestCount)]_vars
  /\ [][\A p \in Providers :
          completerErrors'[p] # completerErrors[p] =>
            /\ completerCalls' = completerCalls
            /\ sharedState' = sharedState]_vars

\* maxRequests = 2, one worker: both requests failed, two calls were made
\* and the pool completed on the request limit.
C15_Witness ==
  /\ bpc = "done" /\ config.maxRequests = 2 /\ config.concurrency = 1
  /\ sharedState.maxRequestsReached
  /\ completerCalls["portkey"] = 2 /\ completerErrors["portkey"] = 2
  /\ Len(results["portkey"]) = 2

\* Every active provider's probe has stored its result.
ProbesStored == \A p \in ActiveProviders : testResults[p] # NoResult

\* C16: when the probe of every active provider succeeded and the warning
\* of lines 306-334 names a provider without a processing time,
\* runPreflightTest returns normally, in comparison and in loadtest mode; and
\* runBenchmark then starts the load phase with every active provider enabled.
C16_MissingTimeIsWarning ==
  /\ []((/\ ProbesStored
          /\ FailedProviders(testResults) = {}
          /\ MissingProcessingTime(testResults) # {})
         => (bpc = "preflightPassed" /\ thrown = "none" /\ ENABLED StartLoadPhase))
  /\ [][(bpc = "preflightPassed" /\ bpc' # bpc) =>
          /\ bpc' = "starting"
          /\ sharedState' = NewSharedState
          /\ EnabledProviders' = ActiveProviders]_vars
  /\ [](LoadPhase => EnabledProviders = ActiveProviders)

\* Comparison mode: both probes succeeded, the proxy's without a processing
\* time, and runPreflightTest returned.
C16_Witness ==
  /\ config.mode = "comparison" /\ bpc = "preflightPassed"
  /\ MissingProcessingTime(testResults) = {"portkey"}
  /\ HasProcessingTime(testResults["openai"])

\* C17 as stated: in every variant of runPreflightTest, when the probes
\* succeeded and a processing time could not be extracted, the preflight
\* passes and the run continues to the load phase.
C17_ContinuesInEveryVariant ==
  (/\ ProbesStored
   /\ FailedProviders(testResults) = {}
   /\ \E p \in ActiveProviders : ~HasProcessingTime(testResults[p]))
    => (bpc = "preflightPassed" /\ thrown = "none")

\* r is a Request Record, as makeRequest returns one (not the initial null
\* of testResults, nor the object the probe's own catch block stores).
IsRequestRecord(r) == "totalTime" \in DOMAIN r

\* C18 as stated: with a prompt that is neither a string nor an array,
\* makeRequest makes no Completer call and produces no Request Record.
C18_BadPromptGivesNoRecord ==
  ~ValidPrompt(config.prompt) =>
    \A p \in Providers :
      /\ probeCalls[p] = 0
      /\ completerCalls[p] = 0
      /\ ~IsRequestRecord(testResults[p])

\* ---------------------------------------------------------------- C19, C20
\* The records the calls of the round have returned.
Returned == {x.value : x \in {y \in roundResults[0] : y.status = "fulfilled"}}

\* The error types of section 7 in the order of their tests, each with the
\* substrings that select it.
Selects(type) ==
  CASE type = "rate_limit" -> {"rate limit", "429"}
    [] type = "timeout" -> {"timeout", "ECONNRESET"}
    [] type = "connection_refused" -> {"ECONNREFUSED"}
    [] OTHER -> {}

Precedence == << "rate_limit", "timeout", "connection_refused" >>

\* C19: every failure record makeRequest returns has totalTime = end - start,
\* no processing time, no network latency, the three token counts 0, and the
\* error type of the first of rate_limit, timeout, connection_refused whose
\* substrings the error message contains, unknown when it contains none.
C19_FailureRecord ==
  /\ [](\A r \in Returned : ~r.success =>
          /\ r.openaiProcessingTime = null
          /\ r.networkLatency = null
          /\ r.tokensUsed = 0 /\ r.promptTokens = 0 /\ r.completionTokens = 0
          /\ r.errorType \in {"rate_limit", "timeout", "connection_refused", "unknown"}
          /\ \A i \in 1 .. Len(Precedence) :
                r.errorType = Precedence[i]
                  <=> /\ r.error \cap Selects(Precedence[i]) # {}
                      /\ \A j \in 1 .. (i - 1) : r.error \cap Selects(Precedence[j]) = {}
          /\ r.errorType = "unknown"
                <=> \A i \in 1 .. Len(Precedence) : r.error \cap Selects(Precedence[i]) = {})
  /\ [][\A x \in roundResults'[0] \ roundResults[0] :
          ~x.value.success => x.value.totalTime = now - callStart[x.value.provider]]_vars

\* A call sent at time 0 raised, one clock step later, an error whose message
\* holds '429', 'timeout' and 'ECONNREFUSED': the record is a rate_limit
\* failure with the elapsed time and no tokens.
C19_Witness ==
  \E r \in Returned :
    /\ ~r.success /\ r.error = {"429", "timeout", "ECONNREFUSED"}
    /\ r.errorType = "rate_limit" /\ r.totalTime = ClockStep
    /\ r.openaiProcessingTime = null /\ r.tokensUsed = 0

\* C20: in every Request Record the network latency is there exactly when
\* the processing time is, and is then totalTime - openaiProcessingTime; the
\* processing time is never 0 or negative.
C20_LatencyIffProcessingTime ==
  \A r \in Returned :
    /\ r.networkLatency # null <=> r.openaiProcessingTime # null
    /\ r.openaiProcessingTime # null =>
         /\ r.openaiProcessingTime > 0
         /\ r.networkLatency = r.totalTime - r.openaiProcessingTime

\* A call returned after one clock step with 800 ms of processing time and
\* so 200 ms of network latency, and a call whose only processing-time header
\* held 0 returned a record with neither.
C20_Witness ==
  /\ \E r \in Returned :
       /\ r.success /\ r.totalTime = ClockStep
       /\ r.openaiProcessingTime = 800 /\ r.networkLatency = ClockStep - 800
  /\ \E r \in Returned :
       r.success /\ r.openaiProcessingTime = null /\ r.networkLatency = null

\* ---------------------------------------------------------------------- C21
\* A header text with a time: it parses to a number greater than 0.
Qualifies(text) == ~ParseFloat(text).isNaN /\ ParseFloat(text).ms > 0

\* The places in the list of names of the listed headers a response holds
\* with a time, and the places in the response of its other headers with a
\* time.
ListedWithTime(entries) ==
  {i \in 1 .. Len(ProcessingTimeHeaders) :
     \E k \in 1 .. Len(entries) :
       entries[k].key = ProcessingTimeHeaders[i] /\ Qualifies(entries[k].value)}

AnyWithTime(entries) ==
  {k \in 1 .. Len(entries) :
     /\ "processing" \in KeyParts(entries[k].key)
     /\ ("ms" \in KeyParts(entries[k].key) \/ "time" \in KeyParts(entries[k].key))
     /\ Qualifies(entries[k].value)}

Least(S) == CHOOSE i \in S : \A j \in S : i <= j

\* C21: extractOpenAIProcessingTime returns the time of the first listed
\* header that has one, whatever the earlier listed headers hold; when no
\* listed header has a time, the time of the first enumerated header whose
\* key contains 'processing' and 'ms' or 'time' and that has one; otherwise
\* null; never 0.
C21_FirstListedThenAny ==
  (ret # NotCalled /\ args.function = "extractOpenAIProcessingTime") =>
    LET entries == args.of.entries
        listed == ListedWithTime(entries)
        any == AnyWithTime(entries)
    IN /\ ret.value # 0
       /\ listed # {} =>
            \E k \in 1 .. Len(entries) :
              /\ entries[k].key = ProcessingTimeHeaders[Least(listed)]
              /\ ret.value = ParseFloat(entries[k].value).ms
       /\ (listed = {} /\ any # {}) =>
            ret.value = ParseFloat(entries[Least(any)].value).ms
       /\ (listed = {} /\ any = {}) => ret.value = null

\* The response enumerates a header that is not listed with 350 and then the
\* first listed header with 800: 800 is returned.  (The other cases: a zero in
\* the first listed header and a time in a later one; only an unlisted
\* header; no time at all.)
C21_Witness ==
  /\ ret # NotCalled /\ args.function = "extractOpenAIProcessingTime"
  /\ args.of = Headers(<< Header("x-upstream-processing-time", "350"),
                          Header("openai-processing-ms", "800") >>)
  /\ ret.value = 800

\* ---------------------------------------------------------------------- C22
\* No request was ever issued to the direct provider.
NothingSentToOpenAI ==
  /\ probeCalls["openai"] = 0
  /\ completerCalls["openai"] = 0
  /\ probe.provider # "openai"
  /\ testResults.openai = NoResult
  /\ results.openai = << >>
  /\ \A w \in Workers : "openai" \notin pending[w]

\* The constructor activated exactly the providers of P.
Activates(P) == thrown # "invalidMode" /\ bpc # "threw" /\ ActiveProviders = P

\* C22 as stated: both providers for 'comparison' and an omitted mode, the
\* proxy only for 'loadtest', a throw for any other mode value; in loadtest
\* mode nothing is ever sent to the direct provider.
C22_OnlyOmittedModeDefaults ==
  /\ config.mode \in {"comparison", Omitted} => Activates({"openai", "portkey"})
  /\ config.mode = "loadtest" => Activates({"portkey"}) /\ NothingSentToOpenAI
  /\ config.mode \notin {"comparison", Omitted, "loadtest"} =>
       /\ thrown = "invalidMode" /\ bpc = "threw"
       /\ \A p \in Providers : probeCalls[p] = 0 /\ completerCalls[p] = 0

\* C22, amended: both providers for 'comparison' and for every mode that is
\* omitted or false in a condition, the proxy only for 'loadtest', a throw for
\* any other mode value; in loadtest mode nothing is ever sent to the direct
\* provider and results.openai stays empty.
C22_FalsyModeDefaults ==
  /\ config.mode \in {"comparison"} \cup Falsy => Activates({"openai", "portkey"})
  /\ config.mode = "loadtest" => Activates({"portkey"}) /\ NothingSentToOpenAI
  /\ config.mode \notin {"comparison", "loadtest"} \cup Falsy =>
       /\ thrown = "invalidMode" /\ bpc = "threw"
       /\ \A p \in Providers : probeCalls[p] = 0 /\ completerCalls[p] = 0

\* A loadtest run completed: the proxy was probed once and sent every
\* request of the run, the direct provider none.
C22_Witness ==
  /\ config.mode = "loadtest" /\ bpc = "done"
  /\ probeCalls["portkey"] = 1 /\ completerCalls["portkey"] = config.maxRequests
  /\ Len(results.portkey) = config.maxRequests
  /\ NothingSentToOpenAI

\* ---------------------------------------------------------------------- C23
TestPromptReturned == ret # NotCalled /\ args.function = "testPrompt"

\* C23 as stated: the preflight prompt of a string prompt has at most 100
\* characters; an array prompt is passed unchanged.
C23_AtMostLimit ==
  TestPromptReturned =>
    /\ args.of.type = "string" => Len(ret.value.chars) <= PreflightPromptLimit
    /\ args.of.type = "array" => ret.value = args.of

\* C23, amended: the preflight prompt of a string prompt of at most 100
\* characters is the prompt; that of a longer one is its first 100 characters
\* followed by three dots, 103 characters; an array prompt is passed
\* unchanged.
C23_LimitPlusEllipsis ==
  TestPromptReturned =>
    /\ args.of.type = "array" => ret.value = args.of
    /\ args.of.type = "string" =>
         LET q == args.of.chars
             t == ret.value.chars
         IN /\ ret.value.type = "string"
            /\ Len(q) <= PreflightPromptLimit => t = q
            /\ Len(q) > PreflightPromptLimit =>
                 /\ Len(t) = PreflightPromptLimit + 3
                 /\ \A i \in 1 .. PreflightPromptLimit : t[i] = q[i]
                 /\ \A i \in (PreflightPromptLimit + 1) .. Len(t) : t[i] = "."

\* A string prompt of 101 characters: the preflight prompt has 103.
C23_Witness ==
  /\ TestPromptReturned /\ args.of.type = "string"
  /\ Len(args.of.chars) = PreflightPromptLimit + 1
  /\ Len(ret.value.chars) = PreflightPromptLimit + 3

\* ---------------------------------------------------------------------- C24
\* runPreflightTest is running, or has not started.
InPreflight == bpc \in {"constructed", "preflight"}

\* The makeRequest calls runPreflightTest has made for provider p: the one in
\* flight and the one whose result is stored.
ProbesOf(p) ==
  (IF probe.provider = p THEN 1 ELSE 0) + (IF testResults[p] # NoResult THEN 1 ELSE 0)

\* C24: runPreflightTest calls makeRequest exactly once for each active
\* provider, also after the probe of an earlier provider failed, and never
\* for an inactive one; no step of it changes a result collection or the
\* request counter, so that the records of the collections are those of the
\* load phase only.
C24_OneProbeEachNoRecord ==
  /\ [](\A p \in Providers :
          /\ probeCalls[p] <= 1
          /\ p \notin ActiveProviders =>
               probeCalls[p] = 0 /\ (InPreflight => ProbesOf(p) = 0)
          /\ InPreflight => ProbesOf(p) <= 1)
  /\ [](PreflightEvaluated =>
          \A p \in ActiveProviders :
            ProbesOf(p) = 1 /\ (ValidPrompt(config.prompt) => probeCalls[p] = 1))
  /\ [](InPreflight \/ PreflightEvaluated => NoLoadPhase)
  /\ [][InPreflight =>
          /\ results' = results
          /\ sharedState' = sharedState
          /\ completerCalls' = completerCalls]_vars
  /\ [](LoadPhase =>
          \A p \in Providers :
            /\ Len(results[p]) <= sharedState.requestCount
            /\ ValidPrompt(config.prompt) =>
                 probeCalls[p] = (IF p \in ActiveProviders THEN 1 ELSE 0))

\* Comparison mode: the probe of the direct provider failed, the proxy was
\* probed all the same and succeeded; runBenchmark is rejected and nothing
\* was recorded or counted.
C24_Witness ==
  /\ config.mode = "comparison" /\ thrown = "someFailed"
  /\ testResults.openai # NoResult /\ ~ProbeSuccess(testResults.openai)
  /\ ProbeSuccess(testResults.portkey)
  /\ probeCalls = [openai |-> 1, portkey |-> 1]
  /\ NoLoadPhase

\* ---------------------------------------------------------------- C25, C26
StatsReturned == ret # NotCalled /\ args.function = "calculateStats"

\* The collection calculateStats was called on has no successful record.
NoSuccessIn(records) == \A i \in 1 .. Len(records) : ~records[i].success

\* The timing fields of the statistics.
TimingFields ==
  {"avgTotalTime", "avgOpenAITime", "avgNetworkLatency", "medianTotalTime",
   "p95TotalTime", "p99TotalTime", "minTotalTime", "maxTotalTime"}

\* C25: for a collection without a successful record, the empty one
\* included, calculateStats returns successRate 0, failureRate 100 and every
\* timing field 0, and does not throw.
C25_NoSuccessGivesZeros ==
  (StatsReturned /\ NoSuccessIn(args.of)) =>
    /\ ~ret.threw
    /\ RatEq(ret.value.successRate, Int2Rat(0))
    /\ RatEq(ret.value.failureRate, Int2Rat(100))
    /\ \A f \in TimingFields : RatEq(ret.value[f], Int2Rat(0))

\* calculateStats returned for a collection of two failure records.
C25_Witness ==
  /\ StatsReturned /\ Len(args.of) = 2 /\ NoSuccessIn(args.of)
  /\ ~ret.threw /\ ret.value.failureRate = Int2Rat(100)

\* C26 as stated: for a collection without a successful record, count is the
\* number of records of the collection.
C26_CountIsAttempts ==
  (StatsReturned /\ NoSuccessIn(args.of)) => ret.value.count = Len(args.of)

\* ---------------------------------------------------------------------- C27
\* The places of the successful records in a collection.
SuccessPlaces(records) == {i \in 1 .. Len(records) : records[i].success}

\* The total time at the zero-based place k of the ascending order of the
\* total times of the successful records: at most k of them are smaller and
\* more than k are not greater.
TotalTimeAt(records, k) ==
  LET S == SuccessPlaces(records)
  IN CHOOSE v \in {records[i].totalTime : i \in S} :
       /\ Cardinality({i \in S : records[i].totalTime < v}) <= k
       /\ Cardinality({i \in S : records[i].totalTime <= v}) > k

\* The linear-interpolation percentile of section 4.5: with index =
\* p / 100 * (n - 1), the element at index when it is whole, otherwise the
\* elements at its floor and ceiling weighted by its fractional part.
Interpolated(records, p) ==
  LET n == Cardinality(SuccessPlaces(records))
      whole == (p * (n - 1)) \div 100
      hundredths == (p * (n - 1)) % 100
  IN IF hundredths = 0 THEN Int2Rat(TotalTimeAt(records, whole))
     ELSE Rat(TotalTimeAt(records, whole) * (100 - hundredths)
                + TotalTimeAt(records, whole + 1) * hundredths, 100)

RECURSIVE TotalTimeOver(_, _)
TotalTimeOver(records, S) ==
  IF S = {} THEN 0
  ELSE LET i == CHOOSE j \in S : TRUE
       IN records[i].totalTime + TotalTimeOver(records, S \ {i})

\* C27: for a collection with a successful record, medianTotalTime,
\* p95TotalTime and p99TotalTime are the linear-interpolation percentiles 50,
\* 95 and 99 of the ascending total times of the successful records; the
\* total time of a failed record is in no timing statistic: minimum, maximum
\* and average are those of the successful records too.
C27_InterpolatedOverSuccesses ==
  (StatsReturned /\ ~NoSuccessIn(args.of)) =>
    LET n == Cardinality(SuccessPlaces(args.of))
    IN /\ RatEq(ret.value.medianTotalTime, Interpolated(args.of, 50))
       /\ RatEq(ret.value.p95TotalTime, Interpolated(args.of, 95))
       /\ RatEq(ret.value.p99TotalTime, Interpolated(args.of, 99))
       /\ RatEq(ret.value.minTotalTime, Int2Rat(TotalTimeAt(args.of, 0)))
       /\ RatEq(ret.value.maxTotalTime, Int2Rat(TotalTimeAt(args.of, n - 1)))
       /\ RatEq(ret.value.avgTotalTime,
                Rat(TotalTimeOver(args.of, SuccessPlaces(args.of)), n))

\* A failure after 5000 ms and successes after 1206 and 1000 ms: the median
\* is 1103 ms, the 95th percentile 1195.7 ms, the maximum 1206 ms.
C27_Witness ==
  /\ StatsReturned /\ Len(args.of) = 3
  /\ ~args.of[1].success /\ args.of[1].totalTime = 5000
  /\ args.of[2].success /\ args.of[2].totalTime = 1206
  /\ args.of[3].success /\ args.of[3].totalTime = 1000
  /\ RatEq(ret.value.medianTotalTime, Int2Rat(1103))
  /\ RatEq(ret.value.p95TotalTime, Rat(11957, 10))
  /\ RatEq(ret.value.maxTotalTime, Int2Rat(1206))

\* ---------------------------------------------------------------------- C28
PercentileReturned == ret # NotCalled /\ args.function = "calculatePercentile"

\* C28: for a non-empty ascending array, calculatePercentile(arr, 0) is its
\* first element and calculatePercentile(arr, 100) its last; for an array of
\* one element it is that element for every percentile.
C28_EndsAndSingle ==
  PercentileReturned =>
    LET arr == args.of.sortedArray
        q == args.of.percentile
    IN /\ q = 0 => RatEq(ret.value, Int2Rat(arr[1]))
       /\ q = 100 => RatEq(ret.value, Int2Rat(arr[Len(arr)]))
       /\ Len(arr) = 1 => RatEq(ret.value, Int2Rat(arr[1]))

\* calculatePercentile([900, 1000, 1206], 100) returned 1206.
C28_Witness ==
  /\ PercentileReturned
  /\ args.of = [sortedArray |-> << 900, 1000, 1206 >>, percentile |-> 100]
  /\ RatEq(ret.value, Int2Rat(1206))

\* ---------------------------------------------------------------------- C29
\* The places of the successful records that have the field.
PlacesWith(records, field) == {i \in SuccessPlaces(records) : records[i][field] # null}

RECURSIVE FieldOver(_, _, _)
FieldOver(records, field, S) ==
  IF S = {} THEN 0
  ELSE LET i == CHOOSE j \in S : TRUE
       IN records[i][field] + FieldOver(records, field, S \ {i})

\* The arithmetic mean of the field over the successful records that have
\* it, 0 when none has.
MeanOrZero(records, field) ==
  LET S == PlacesWith(records, field)
  IN IF S = {} THEN Int2Rat(0) ELSE Rat(FieldOver(records, field, S), Cardinality(S))

\* C29: avgOpenAITime and avgNetworkLatency are the means of their field
\* over the successful records that have it, 0 when none has; when every
\* successful record has a processing time, avgNetworkLatency is
\* avgTotalTime - avgOpenAITime.
C29_MeansOverPresentFields ==
  StatsReturned =>
    /\ RatEq(ret.value.avgOpenAITime, MeanOrZero(args.of, "openaiProcessingTime"))
    /\ RatEq(ret.value.avgNetworkLatency, MeanOrZero(args.of, "networkLatency"))
    /\ PlacesWith(args.of, "openaiProcessingTime") = SuccessPlaces(args.of) =>
         RatEq(ret.value.avgNetworkLatency,
               RatSub(ret.value.avgTotalTime, ret.value.avgOpenAITime))

\* Successes after 1000 and 1206 ms with 800 ms of processing time each:
\* the network latencies are 200 and 406 ms, their average 303 ms.
C29_Witness ==
  /\ StatsReturned /\ Len(args.of) = 2
  /\ \A i \in 1 .. 2 : args.of[i].success /\ args.of[i].openaiProcessingTime = 800
  /\ args.of[1].totalTime = 1000 /\ args.of[2].totalTime = 1206
  /\ args.of[1].networkLatency = 200 /\ args.of[2].networkLatency = 406
  /\ RatEq(ret.value.avgNetworkLatency, Int2Rat(303))
  /\ RatEq(ret.value.avgOpenAITime, Int2Rat(800))

\* ---------------------------------------------------------------------- C30
ReportReturned == ret # NotCalled /\ args.function = "generateReport"

\* C30 as stated: in comparison mode, when both collections have a record
\* and the direct provider has no successful one, generateReport does not
\* throw and latencyOverheadPercentage is neither NaN nor an infinity.
C30_PercentageIsDefined ==
  (/\ ReportReturned
   /\ args.of.mode = "comparison"
   /\ Len(args.of.openai) > 0 /\ Len(args.of.portkey) > 0
   /\ NoSuccessIn(args.of.openai)) =>
    /\ ~ret.threw
    /\ ret.value.comparison # NoComparison
    /\ ~IsNaN(ret.value.comparison.latencyOverheadPercentage)
    /\ ~IsInfinity(ret.value.comparison.latencyOverheadPercentage)

\* ---------------------------------------------------------------- C31, C32
\* main has left its synchronous part.
MainDone == args.called /\ args.function = "main" /\ bpc \in {"exited", "constructed"}

\* main failed with a configuration error: no benchmark was constructed and
\* no Completer call was made.
FailedFast ==
  /\ bpc = "exited"
  /\ thrown \in {"missingPrompt", "missingPortkeyApiKey", "missingOpenaiApiKey",
                  "invalidMode"}
  /\ sharedState = Undefined
  /\ \A p \in Providers : probeCalls[p] = 0 /\ completerCalls[p] = 0

\* C31 as stated: main fails fast whenever the prompt is absent, the mode is
\* given and is not 'comparison' or 'loadtest', portkeyApiKey is absent, or
\* openaiApiKey is absent in comparison mode (an omitted mode being read as
\* 'comparison').
C31_FailsFastOnAnyOtherMode ==
  (/\ MainDone
   /\ \/ args.of.prompt \in Falsy
      \/ args.of.mode \notin {"comparison", "loadtest", Omitted}
      \/ args.of.portkeyApiKey \in Falsy
      \/ args.of.mode \in {"comparison", Omitted} /\ args.of.openaiApiKey \in Falsy)
    => FailedFast

\* C31, amended: an omitted or falsy mode counts as 'comparison'; main fails
\* fast whenever the prompt is absent or empty, the mode so read is neither
\* 'comparison' nor 'loadtest', portkeyApiKey is absent or empty, or
\* openaiApiKey is absent or empty and the mode so read is 'comparison'.
C31_FailsFastOnInvalidConfig ==
  (/\ MainDone
   /\ \/ args.of.prompt \in Falsy
      \/ ModeOrDefault(args.of.mode) \notin {"comparison", "loadtest"}
      \/ args.of.portkeyApiKey \in Falsy
      \/ ModeOrDefault(args.of.mode) = "comparison" /\ args.of.openaiApiKey \in Falsy)
    => FailedFast

\* A config for comparison mode with a prompt and the key of the proxy, and
\* with an empty key of the direct provider: main failed.
C31_Witness ==
  /\ MainDone /\ FailedFast
  /\ args.of.mode = "comparison" /\ args.of.prompt = "string"
  /\ args.of.portkeyApiKey = "pk-key" /\ args.of.openaiApiKey = ""
  /\ thrown = "missingOpenaiApiKey"

Started == {w \in Workers : wpc[w] # "notStarted"}

\* The workers with a round in flight: its number is claimed, its records are
\* not appended.
Open == {w \in Workers : wpc[w] \in {"awaiting", "rejected"}}

\* C33: the workers started are the first N of the loop, all N once the loop
\* has ended; each has at most one round in flight, so the claimed sequence
\* numbers without appended records are those of the workers with a round in
\* flight, one each, and are at most N.
C33_ConcurrencyIsConfigured ==
  LoadPhase =>
    /\ Started = {w \in Workers :
                   w < (IF bpc = "starting" THEN nextWorker ELSE config.concurrency)}
    /\ \A v, w \in Open : v # w => currentRequestNumber[v] # currentRequestNumber[w]
    /\ \A p \in EnabledProviders :
         /\ Len(claimed) - Len(results[p]) = Cardinality(Open)
         /\ Len(claimed) - Len(results[p]) <= config.concurrency

\* One worker configured, of the two the model has: it is the only one
\* started, its second round is in flight and one record is appended.
C33_Witness ==
  /\ LoadPhase /\ bpc = "running" /\ config.concurrency = 1
  /\ Started = {0} /\ Open = {0}
  /\ Len(claimed) = 2 /\ \A p \in EnabledProviders : Len(results[p]) = 1

\* --------------------------------------------------------------------- C34
\* C34: whenever the load phase runs, openaiEnabled = shouldTestOpenAI and
\* portkeyEnabled = shouldTestPortkey, so the enabled set is the mode's
\* active set, never empty and never a strict subset of it; and no step of
\* the load phase changes the enabled flags.
C34_EnabledIsActive ==
  /\ [](LoadPhase =>
         /\ openaiEnabled = shouldTestOpenAI
         /\ portkeyEnabled = shouldTestPortkey
         /\ EnabledProviders = ActiveProviders
         /\ EnabledProviders # {})
  /\ [][LoadPhase => UNCHANGED << openaiEnabled, portkeyEnabled >>]_vars

\* Comparison mode: both providers are enabled, and both have records of a
\* round of the load phase.
C34_Witness ==
  /\ LoadPhase /\ config.mode = "comparison"
  /\ EnabledProviders = {"openai", "portkey"}
  /\ \A p \in Providers : Len(results[p]) = 1

\* --------------------------------------------------------------------- C35
\* Worker w runs a loop iteration in this step: it leaves the start of the
\* pool or its sleep.
Iterates(w) == wpc[w] \in {"notStarted", "sleeping"} /\ wpc'[w] # wpc[w]

\* C35: when a worker runs its checks with shouldStop false and both limits
\* reached, it breaks for the time limit: the time-limit flag is set, the
\* max-requests flag is not, and the stop signal is raised.
C35_TimeLimitCheckedFirst ==
  [][\A w \in Workers :
       (/\ LoadPhase /\ Iterates(w)
        /\ ~sharedState.shouldStop
        /\ TimeLimitReached(now)
        /\ MaxRequestsReached(sharedState))
         => /\ sharedState'.timeLimit
            /\ ~sharedState'.maxRequestsReached
            /\ sharedState'.shouldStop
            /\ exitReason'[w] = "timeLimit"]_vars

\* The request limit was reached by counting, and the worker that found both
\* limits reached stopped the pool for the time limit: the max-requests flag
\* is not set.
C35_Witness ==
  /\ LoadPhase /\ config.maxRequests >= 1 /\ config.testDuration >= 1
  /\ sharedState.requestCount = config.maxRequests
  /\ sharedState.timeLimit /\ ~sharedState.maxRequestsReached
  /\ \E w \in Workers : exitReason[w] = "timeLimit"

\* --------------------------------------------------------------------- C36
\* C36: the re-check after the increment never fires: no worker leaves its
\* loop there, no sequence number above maxRequests is captured, requestCount
\* stays at or below maxRequests, and every captured sequence number had its
\* round dispatched, one Completer call for each enabled provider.
C36_RecheckNeverFires ==
  LoadPhase =>
    /\ \A w \in Workers : exitReason[w] # "exceeded"
    /\ config.maxRequests # 0 =>
         /\ sharedState.requestCount <= config.maxRequests
         /\ \A i \in 1 .. Len(claimed) : claimed[i] <= config.maxRequests
         /\ \A w \in Workers : currentRequestNumber[w] <= config.maxRequests
    /\ \A p \in EnabledProviders :
         completerCalls[p] = Len(claimed) * CallsMade(config.prompt)

\* Two workers and maxRequests = 1: the first has claimed the only number,
\* the second left at the check before the increment, and the counter is 1.
C36_Witness ==
  /\ LoadPhase /\ config.concurrency = 2 /\ config.maxRequests = 1
  /\ sharedState.requestCount = 1 /\ claimed = << 1 >>
  /\ sharedState.maxRequestsReached
  /\ \E w \in Workers : exitReason[w] = "maxRequests"
  /\ \A p \in EnabledProviders : completerCalls[p] = 1

\* --------------------------------------------------------------------- C37
\* C37: when the pool has completed, for the one stop reason or the other,
\* each enabled provider has as many records as requests were started
\* (results[p].length = requestCount) and a provider not enabled has none;
\* while the pool runs no provider has more records than requests started.
C37_StartedEqualsCompleted ==
  /\ bpc = "done" =>
       /\ StopReason(sharedState) \in {"maxRequestsReached", "timeLimit"}
       /\ \A p \in EnabledProviders : Len(results[p]) = sharedState.requestCount
       /\ \A p \in Providers \ EnabledProviders : Len(results[p]) = 0
  /\ (LoadPhase /\ bpc # "done") =>
       \A p \in Providers : Len(results[p]) <= sharedState.requestCount

\* The pool completed on the time limit after two requests were started, with
\* two records for each of the two providers.
C37_Witness ==
  /\ bpc = "done" /\ StopReason(sharedState) = "timeLimit"
  /\ EnabledProviders = {"openai", "portkey"}
  /\ sharedState.requestCount = 2
  /\ \A p \in Providers : Len(results[p]) = 2

\* --------------------------------------------------------------------- C38
\* C38 as stated: for every collection, the object calculateStats returns has
\* count = successfulCount + failedCount = the number of records, and
\* successRate + failureRate = 100 (a field the object does not have reads
\* as undefined, and a sum with it equals no count).
C38_CountsAndRatesAddUp ==
  StatsReturned =>
    /\ {"count", "successfulCount", "failedCount"} \subseteq DOMAIN ret.value
    /\ ret.value.count = ret.value.successfulCount + ret.value.failedCount
    /\ ret.value.count = Len(args.of)
    /\ RatEq(ret.value.successRate, RatSub(Int2Rat(100), ret.value.failureRate))

=============================================================================
